---- MODULE Spec2Model ----
(***************************************************************************)
(* A model of py2puml: the package/module/class tree built by              *)
(* PythonPackage.walk, the two resolution passes over it                   *)
(* (resolve_relative_imports, resolve_class_inheritance), the diagram      *)
(* assembly of py2puml(), and the AST visitors that analyse assignments    *)
(* and class bodies.                                                       *)
(*                                                                         *)
(* Dotted names ('top.root.x') are sequences of segments                   *)
(* (<<"top","root","x">>): f'{a}.{b}' is a \o b, split('.') and            *)
(* '.'.join are the passage between both views, and "'.' in s" is          *)
(* Len(s) > 1.  Python's None, for a str-valued field, is the empty        *)
(* sequence; formatting it in an f-string gives the text 'None' (Str).     *)
(* Python dicts are sequences of [key, val] records, in insertion order.   *)
(***************************************************************************)
EXTENDS Integers, Sequences, FiniteSets, TLC

VARIABLES
    fs,        \* the sources on disk: fs[module fqn] = its top-level statements
    package,   \* the root PythonPackage and everything reachable from it
    phase,     \* which methods have run on the tree, in call order
    raised,    \* the exception the last call ended with, "none" otherwise
    last,      \* the last call made on one import or one name, and its result
    output,    \* what py2puml() returned (the generate() fragments)
    stmt,      \* the AST node handed to a visitor
    visitor    \* that visitor (an AssignmentVisitor or a ClassVisitor)

vars == <<fs, package, phase, raised, last, output, stmt, visitor>>

-----------------------------------------------------------------------------
(* Values *)

None == <<>>
NoAlias == ""
NoClass == [mod |-> <<>>, idx |-> 0]

Str(v) == IF v = None THEN <<"None">> ELSE v

Front(s) == SubSeq(s, 1, Len(s) - 1)
Last(s) == s[Len(s)]

RECURSIVE SeqRange(_)
SeqRange(s) == IF s = <<>> THEN {} ELSE {Head(s)} \cup SeqRange(Tail(s))

(* dict *)
DictKeys(d) == {d[i].key : i \in 1..Len(d)}
DictGet(d, k) == d[CHOOSE i \in 1..Len(d) : d[i].key = k].val
DictSet(d, k, v) ==
    IF k \in DictKeys(d)
    THEN [i \in 1..Len(d) |-> IF d[i].key = k THEN [key |-> k, val |-> v] ELSE d[i]]
    ELSE Append(d, [key |-> k, val |-> v])
DictDel(d, k) == SelectSeq(d, LAMBDA e : e.key # k)
DictValues(d) == [i \in 1..Len(d) |-> d[i].val]

-----------------------------------------------------------------------------
(* methods.py: AssignmentVisitor.                                          *)
(* An AST node is [kind, id, elts]: id is a Name's id or an Attribute's    *)
(* attr, elts are the child nodes in the order generic_visit takes them.   *)

Name(id) == [kind |-> "Name", id |-> id, elts |-> <<>>]
Constant == [kind |-> "Constant", id |-> "", elts |-> <<>>]
Attribute(value, attr) == [kind |-> "Attribute", id |-> attr, elts |-> <<value>>]
BinOp(left, right) == [kind |-> "BinOp", id |-> "", elts |-> <<left, right>>]
Call(func, args) == [kind |-> "Call", id |-> "", elts |-> <<func>> \o args]
Tuple(elts) == [kind |-> "Tuple", id |-> "", elts |-> elts]
\* value[slice]
Subscript(value, slice) == [kind |-> "Subscript", id |-> "", elts |-> <<value, slice>>]
\* Assign(targets, value): elts are the targets followed by the value
Assign(targets, value) == [kind |-> "Assign", id |-> "", elts |-> targets \o <<value>>]
AnnAssign(target, annotation, value) ==
    [kind |-> "AnnAssign", id |-> "", elts |-> <<target, annotation, value>>]
\* '<target>: <annotation>' without a value: node.value is None, which
\* generic_visit skips
AnnDecl(target, annotation) ==
    [kind |-> "AnnAssign", id |-> "", elts |-> <<target, annotation>>]
\* a field that holds a list of nodes
List(nodes) == [kind |-> "list", id |-> "", elts |-> nodes]
\* arg(arg, annotation): annotation is <<>> or << the annotation >>
arg(name, annotation) == [kind |-> "arg", id |-> name, elts |-> annotation]
arguments(args) == [kind |-> "arguments", id |-> "", elts |-> args]
FunctionDef(name, args, body, decorator_list) ==
    [kind |-> "FunctionDef", id |-> name,
     elts |-> <<arguments(args), List(body), List(decorator_list)>>]
\* ast.ClassDef(name, bases, body, decorator_list)
ClassNode(name, bases, body, decorator_list) ==
    [kind |-> "ClassDef", id |-> name,
     elts |-> <<List(bases), List(body), List(decorator_list)>>]

MaxElts == 3

TargetElts ==
    {Attribute(Name("self"), "x"), Attribute(Name("self"), "y"),
     Attribute(Name("other"), "z"), Name("v")}

ValueElts ==
    {Name("a"), Name("b"), Constant, BinOp(Name("a"), Constant),
     Tuple(<<Name("a"), Name("b")>>), Attribute(Name("self"), "z")}


\* AssignmentVisitor.__init__; _index and the items of _attr_indexes are
\* <<k>> for the int k and None otherwise
NewAssignmentVisitor ==
    [attribute_assignments |-> <<>>, _index |-> <<0>>, _attr_indexes |-> <<>>,
     raised |-> "none"]

NoType == ""

\* AttributeAssignment(instance_attribute=InstanceAttribute(name=name)): the
\* instance attribute's name and type_expr, and the variable_names
AttributeAssignment(name) ==
    [name |-> name, type_expr |-> NoType, variable_names |-> <<>>]

AssignmentVisitor_visit_Attribute(v, node) ==
    IF node.elts[1].kind = "Name" /\ node.elts[1].id = "self"
    THEN IF Len(v._attr_indexes) > 0 /\ v._index = None
         THEN [v EXCEPT !.raised = "TypeError"]
         ELSE IF Len(v._attr_indexes) > 0 /\ v._index[1] >= Len(v._attr_indexes)
         THEN [v EXCEPT !.raised = "IndexError"]
         ELSE [v EXCEPT
                 !._attr_indexes =
                     IF Len(@) > 0
                     THEN [@ EXCEPT ![v._index[1] + 1] = <<Len(v.attribute_assignments)>>]
                     ELSE @,
                 !.attribute_assignments = Append(@, AttributeAssignment(node.id))]
    ELSE v

AssignmentVisitor_visit_Name(v, mode, node) ==
    IF mode = "value" /\ Len(v.attribute_assignments) > 0
    THEN IF v._index = None
         THEN [v EXCEPT !.raised = "TypeError"]
         ELSE IF v._index[1] >= Len(v.attribute_assignments)
         THEN [v EXCEPT !.raised = "IndexError"]
         ELSE [v EXCEPT !.attribute_assignments[v._index[1] + 1].variable_names =
                            Append(@, node.id)]
    ELSE v

\* visit: dispatch on the node's class, generic_visit for the classes the
\* visitor has no method for; an exception ends the whole visit.
\* mode is "target" while _visiting_target holds, "value" while
\* _visiting_value holds.
RECURSIVE AssignmentVisitor_visit(_, _, _)
RECURSIVE AssignmentVisitor_generic_visit(_, _, _)
RECURSIVE AssignmentVisitor_visit_Tuple(_, _, _, _)
AssignmentVisitor_visit(v, mode, node) ==
    IF v.raised # "none" THEN v
    ELSE IF node.kind = "Attribute" THEN AssignmentVisitor_visit_Attribute(v, node)
    ELSE IF node.kind = "Name" THEN AssignmentVisitor_visit_Name(v, mode, node)
    ELSE IF node.kind = "Tuple" THEN AssignmentVisitor_visit_Tuple(v, mode, node, 0)
    ELSE AssignmentVisitor_generic_visit(v, mode, node.elts)

AssignmentVisitor_generic_visit(v, mode, elts) ==
    IF elts = <<>> \/ v.raised # "none" THEN v
    ELSE AssignmentVisitor_generic_visit(
            AssignmentVisitor_visit(v, mode, Head(elts)), mode, Tail(elts))

\* the loops over enumerate(node.elts), from `index` on
AssignmentVisitor_visit_Tuple(v, mode, node, index) ==
    IF index >= Len(node.elts) \/ v.raised # "none" THEN v
    ELSE IF mode = "target"
    THEN AssignmentVisitor_visit_Tuple(
            AssignmentVisitor_visit(
                [v EXCEPT !._attr_indexes = Append(@, None), !._index = <<index>>],
                mode, node.elts[index + 1]),
            mode, node, index + 1)
    ELSE IF Len(v._attr_indexes) = 0
    THEN AssignmentVisitor_visit_Tuple(
            AssignmentVisitor_visit(v, mode, node.elts[index + 1]), mode, node, index + 1)
    ELSE IF index >= Len(v._attr_indexes)
    THEN [v EXCEPT !.raised = "IndexError"]
    ELSE IF v._attr_indexes[index + 1] = None
    THEN AssignmentVisitor_visit_Tuple(
            [v EXCEPT !._index = None], mode, node, index + 1)
    ELSE AssignmentVisitor_visit_Tuple(
            AssignmentVisitor_visit(
                [v EXCEPT !._index = v._attr_indexes[index + 1]],
                mode, node.elts[index + 1]),
            mode, node, index + 1)

\* visit_Assign: targets[0] with _visiting_target, then value with _visiting_value
AssignmentVisitor_visit_Assign(v, node) ==
    AssignmentVisitor_visit(
        AssignmentVisitor_visit(v, "target", node.elts[1]),
        "value", Last(node.elts))

\* TypeVisitor().visit(node): the id of a Name, the attr of an Attribute;
\* generic_visit returns None for the other nodes modelled here
TypeVisitor_visit(node) ==
    IF node.kind \in {"Name", "Attribute"} THEN node.id ELSE NoType

AssignmentVisitor_visit_AnnAssign(v, node) ==
    LET v1 == AssignmentVisitor_visit(v, "target", node.elts[1])
        type_expr == TypeVisitor_visit(node.elts[2])
        n == Len(v1.attribute_assignments)
        v2 == IF v1.raised = "none" /\ n > 0
              THEN [v1 EXCEPT !.attribute_assignments[n].type_expr = type_expr]
              ELSE v1
    IN  IF Len(node.elts) < 3
        THEN \* self.visit(None): generic_visit reads None._fields
             IF v2.raised = "none" THEN [v2 EXCEPT !.raised = "AttributeError"] ELSE v2
        ELSE AssignmentVisitor_visit(v2, "value", node.elts[3])

-----------------------------------------------------------------------------
(* methods.py: DecoratorVisitor, SignatureVariablesCollector,              *)
(* MethodVisitor, ConstructorVisitor; classes.py: ClassVisitor             *)

ClassAttribute(name, type_expr) ==
    [kind |-> "ClassAttribute", name |-> name, type_expr |-> type_expr]
InstanceAttribute(name, type_expr) ==
    [kind |-> "InstanceAttribute", name |-> name, type_expr |-> type_expr]

\* DecoratorVisitor / BaseClassVisitor: the elements of the dotted name;
\* generic_visit descends into the nodes that are no Name and no Attribute
RECURSIVE elements(_)
RECURSIVE elements_of_all(_)
elements(node) ==
    IF node.kind = "Name" THEN <<node.id>>
    ELSE IF node.kind = "Attribute" THEN elements(node.elts[1]) \o <<node.id>>
    ELSE elements_of_all(node.elts)
elements_of_all(nodes) ==
    IF nodes = <<>> THEN <<>>
    ELSE elements(Head(nodes)) \o elements_of_all(Tail(nodes))

decorators_of(node) ==
    LET ds == node.elts[3].elts
    IN  [i \in 1..Len(ds) |-> elements(ds[i])]

\* MethodVisitor.visit_FunctionDef: the Method it builds; every argument of
\* the signature is entered with its annotation's type
MethodVisitor_visit_FunctionDef(node) ==
    LET decorators == SelectSeq(decorators_of(node), LAMBDA d : d # <<>>)
        args == node.elts[1].elts
    IN  [name |-> node.id,
         arguments |-> [i \in 1..Len(args) |->
                          [key |-> args[i].id,
                           val |-> IF args[i].elts = <<>> THEN NoType
                                   ELSE TypeVisitor_visit(args[i].elts[1])]],
         is_static |-> <<"staticmethod">> \in SeqRange(decorators),
         is_class |-> <<"classmethod">> \in SeqRange(decorators),
         is_getter |-> <<"property">> \in SeqRange(decorators),
         return_type |-> NoType]

NewConstructorVisitor ==
    [name |-> "", arguments |-> <<>>, instance_attributes |-> <<>>, raised |-> "none"]

ConstructorVisitor_visit_arg(k, node) ==
    LET type_expr == IF node.elts = <<>> THEN NoType ELSE TypeVisitor_visit(node.elts[1])
    IN  IF node.id # "self"
        THEN [k EXCEPT !.arguments = Append(@, [name |-> node.id, type_expr |-> type_expr])]
        ELSE k

\* no type, whatever the names of the value
ArgumentType_unknown(args, variable_names) == NoType

\* the type_expr of the first argument whose name is among variable_names
ArgumentType(args, variable_names) ==
    LET hits == {i \in 1..Len(args) : args[i].name \in SeqRange(variable_names)}
    IN  IF hits = {} THEN NoType
        ELSE args[CHOOSE i \in hits : \A j \in hits : i <= j].type_expr

\* the loop of visit_Assign over attribute_assignments, from the i-th on
RECURSIVE StoreAssignments(_, _, _)
StoreAssignments(k, assignments, i) ==
    IF i > Len(assignments) THEN k
    ELSE StoreAssignments(
            [k EXCEPT !.instance_attributes =
                DictSet(@, assignments[i].name,
                        InstanceAttribute(
                            assignments[i].name,
                            ArgumentType(k.arguments, assignments[i].variable_names)))],
            assignments, i + 1)

ConstructorVisitor_visit_Assign(k, node) ==
    LET v == AssignmentVisitor_visit_Assign(NewAssignmentVisitor, node)
    IN  IF v.raised # "none" THEN [k EXCEPT !.raised = v.raised]
        ELSE StoreAssignments(k, v.attribute_assignments, 1)

ConstructorVisitor_visit_AnnAssign(k, node) ==
    LET v == AssignmentVisitor_visit_AnnAssign(NewAssignmentVisitor, node)
    IN  IF v.raised # "none" THEN [k EXCEPT !.raised = v.raised]
        ELSE IF Len(v.attribute_assignments) > 0
        THEN [k EXCEPT !.instance_attributes =
                DictSet(@, v.attribute_assignments[1].name,
                        InstanceAttribute(v.attribute_assignments[1].name,
                                          TypeVisitor_visit(node.elts[2])))]
        ELSE k

RECURSIVE ConstructorVisitor_visit(_, _)
RECURSIVE ConstructorVisitor_generic_visit(_, _)
ConstructorVisitor_visit(k, node) ==
    IF k.raised # "none" THEN k
    ELSE IF node.kind = "FunctionDef"
    THEN ConstructorVisitor_generic_visit([k EXCEPT !.name = node.id], node.elts)
    ELSE IF node.kind = "arg" THEN ConstructorVisitor_visit_arg(k, node)
    ELSE IF node.kind = "Assign" THEN ConstructorVisitor_visit_Assign(k, node)
    ELSE IF node.kind = "AnnAssign" THEN ConstructorVisitor_visit_AnnAssign(k, node)
    ELSE ConstructorVisitor_generic_visit(k, node.elts)
ConstructorVisitor_generic_visit(k, elts) ==
    IF elts = <<>> \/ k.raised # "none" THEN k
    ELSE ConstructorVisitor_generic_visit(ConstructorVisitor_visit(k, Head(elts)), Tail(elts))

NewClassVisitor ==
    [class_name |-> "", attributes |-> <<>>, methods |-> <<>>,
     parent_classes_pqn |-> <<>>, decorators |-> <<>>, is_dataclass |-> FALSE,
     raised |-> "none"]

\* the loop of visit_Assign over node.targets; target.id is an
\* AttributeError for a target that is no Name
RECURSIVE AddTargets(_, _)
AddTargets(c, targets) ==
    IF targets = <<>> THEN c
    ELSE IF Head(targets).kind # "Name" THEN [c EXCEPT !.raised = "AttributeError"]
    ELSE AddTargets(
            [c EXCEPT !.attributes =
                Append(@, IF c.is_dataclass
                          THEN InstanceAttribute(Head(targets).id, NoType)
                          ELSE ClassAttribute(Head(targets).id, NoType))],
            Tail(targets))

ClassVisitor_visit_Assign(c, node) == AddTargets(c, Front(node.elts))

\* visit_AnnAssign without the is_dataclass branch
ClassVisitor_visit_AnnAssign_class_only(c, node) ==
    IF node.elts[1].kind # "Name" THEN [c EXCEPT !.raised = "AttributeError"]
    ELSE [c EXCEPT !.attributes =
            Append(@, ClassAttribute(node.elts[1].id, TypeVisitor_visit(node.elts[2])))]

ClassVisitor_visit_AnnAssign(c, node) ==
    LET _type == TypeVisitor_visit(node.elts[2])
    IN  IF node.elts[1].kind # "Name" THEN [c EXCEPT !.raised = "AttributeError"]
        ELSE [c EXCEPT !.attributes =
                Append(@, IF c.is_dataclass
                          THEN InstanceAttribute(node.elts[1].id, _type)
                          ELSE ClassAttribute(node.elts[1].id, _type))]

ClassVisitor_visit_FunctionDef(c, node) ==
    LET method == MethodVisitor_visit_FunctionDef(node)
        c1 == IF method.is_getter
              THEN [c EXCEPT !.attributes = Append(@, InstanceAttribute(method.name, NoType))]
              ELSE [c EXCEPT !.methods = Append(@, method)]
    IN  IF node.id = "__init__"
        THEN LET k == ConstructorVisitor_visit(NewConstructorVisitor, node)
             IN  IF k.raised # "none" THEN [c1 EXCEPT !.raised = k.raised]
                 ELSE [c1 EXCEPT !.attributes = @ \o DictValues(k.instance_attributes)]
        ELSE c1

\* the loop of visit_ClassDef over decorator_list
RECURSIVE AddDecorators(_, _)
AddDecorators(c, ds) ==
    IF ds = <<>> THEN c
    ELSE AddDecorators(
            [c EXCEPT !.decorators = Append(@, Head(ds)),
                      !.is_dataclass = @ \/ Head(ds) = <<"dataclass">>],
            Tail(ds))

RECURSIVE ClassVisitor_visit(_, _)
RECURSIVE ClassVisitor_generic_visit(_, _)
RECURSIVE ClassVisitor_visit_ClassDef(_, _)
ClassVisitor_visit(c, node) ==
    IF c.raised # "none" THEN c
    ELSE IF node.kind = "ClassDef" THEN ClassVisitor_visit_ClassDef(c, node)
    ELSE IF node.kind = "FunctionDef" THEN ClassVisitor_visit_FunctionDef(c, node)
    ELSE IF node.kind = "Assign" THEN ClassVisitor_visit_Assign(c, node)
    ELSE IF node.kind = "AnnAssign" THEN ClassVisitor_visit_AnnAssign(c, node)
    ELSE ClassVisitor_generic_visit(c, node.elts)
ClassVisitor_generic_visit(c, elts) ==
    IF elts = <<>> \/ c.raised # "none" THEN c
    ELSE ClassVisitor_generic_visit(ClassVisitor_visit(c, Head(elts)), Tail(elts))
ClassVisitor_visit_ClassDef(c, node) ==
    LET bases == node.elts[1].elts
    IN  ClassVisitor_generic_visit(
            AddDecorators(
                [c EXCEPT !.class_name = node.id,
                          !.parent_classes_pqn =
                              @ \o [i \in 1..Len(bases) |-> elements(bases[i])]],
                decorators_of(node)),
            node.elts)

-----------------------------------------------------------------------------
(* The sources.  A module is a sequence of top-level statements:           *)
(*   class <name>(<bases>): ...                                            *)
(*   from <level dots><module_name> import <name> [as <alias>]             *)

ClassDef(n, bs) ==
    [kind |-> "ClassDef", name |-> n, bases |-> bs, body |-> <<>>,
     module |-> None, asname |-> NoAlias, level |-> 0]

ImportFrom(mn, n, al, lv) ==
    [kind |-> "ImportFrom", name |-> n, bases |-> <<>>, body |-> <<>>,
     module |-> mn, asname |-> al, level |-> lv]

MaxStmts == 3

RootFqn == <<"top", "root">>
PkgX == RootFqn \o <<"x">>
PkgA == RootFqn \o <<"a">>
ModT == RootFqn \o <<"t">>
ModY == PkgX \o <<"y">>
ModB == PkgA \o <<"b">>
InitA == PkgA \o <<"__init__">>

\* find_namespace_packages(root path): the directories below the root, a
\* directory before the directories it holds; x/z holds no file
PackageNames == << <<"x">>, <<"a">>, <<"x", "z">> >>
\* the root directory's __init__.py, where there is one
RootInit == RootFqn \o <<"__init__">>
\* iter_modules(path=[package.path]): the non-package modules of a directory
ModuleFiles(p) ==
    IF p = RootFqn THEN <<"t">>
    ELSE IF p = PkgX THEN <<"y">>
    ELSE IF p = PkgA THEN <<"b">>
    ELSE <<>>

YImports ==
    {ImportFrom(<<"a", "b">>, "B", NoAlias, lv) : lv \in {0, 2, 3}}
    \cup {ImportFrom(<<"a", "b">>, "B", "K", 2)}
    \cup {ImportFrom(<<"a">>, "b", al, 2) : al \in {NoAlias, "K"}}

YClasses ==
    {ClassDef("B", <<>>)}
    \cup {ClassDef("D", <<bs>>) : bs \in {<<"B">>, <<"K">>, <<"b", "B">>, <<"K", "B">>}}

YStmts == YImports \cup YClasses

\* 'class <name>(<bases>): <body>', the body being AST nodes
ClassDefBody(n, bs, body) == [ClassDef(n, bs) EXCEPT !.body = body]

\* t.py: 'from .a.b import B',
\*       'class C:  def __init__(self, b: B): self.b = b'
TSource ==
    <<ImportFrom(<<"a", "b">>, "B", NoAlias, 1),
      ClassDefBody("C", <<>>,
        <<FunctionDef("__init__", <<arg("self", <<>>), arg("b", <<Name("B")>>)>>,
                      <<Assign(<<Attribute(Name("self"), "b")>>, Name("b"))>>, <<>>)>>)>>

BSource == <<ImportFrom(<<"abc">>, "ABC", NoAlias, 0), ClassDef("B", <<>>)>>

\* The name a top-level statement binds in the module's namespace.
Binds(st) ==
    IF st.kind = "ClassDef" THEN st.name
    ELSE IF st.asname # NoAlias THEN st.asname ELSE st.name

\* whether that name is bound to a class (otherwise: to a module)
BindsClass(st) == st.kind = "ClassDef" \/ st.name = "B"

\* the statement whose binding of name n is in effect when statement i runs
BoundAt(y, n, i) ==
    LET ks == {k \in 1..(i - 1) : Binds(y[k]) = n}
    IN  IF ks = {} THEN 0 ELSE CHOOSE k \in ks : \A j \in ks : j <= k

\* walk imports every module it visits (import_module), which executes it:
\* a class statement needs its bases bound, an undotted one to a class and
\* the head of a dotted one to a module.  The error of base j of statement i.
BaseError(y, i, j) ==
    LET pqn == y[i].bases[j]
        k == BoundAt(y, pqn[1], i)
    IN  IF k = 0 THEN "NameError"
        ELSE IF BindsClass(y[k]) /\ Len(pqn) > 1 THEN "AttributeError"
        ELSE IF ~BindsClass(y[k]) /\ Len(pqn) = 1 THEN "TypeError"
        ELSE "none"

Executes(y) ==
    \A i \in 1..Len(y) : \A j \in 1..Len(y[i].bases) : BaseError(y, i, j) = "none"

\* the exception import_module ends with for a module that does not execute
ImportError(y) ==
    LET i == CHOOSE i \in 1..Len(y) :
                /\ \E j \in 1..Len(y[i].bases) : BaseError(y, i, j) # "none"
                /\ \A h \in 1..(i - 1) : \A j \in 1..Len(y[h].bases) :
                        BaseError(y, h, j) = "none"
        j == CHOOSE j \in 1..Len(y[i].bases) :
                /\ BaseError(y, i, j) # "none"
                /\ \A h \in 1..(j - 1) : BaseError(y, i, h) = "none"
    IN  BaseError(y, i, j)

\* the files of the tree, x/y.py holding the statements y
Sources(y) == (ModT :> TSource) @@ (ModY :> y) @@ (ModB :> BSource) @@ (InitA :> <<>>)

-----------------------------------------------------------------------------
(* module.py: ModuleVisitor, PythonModule.visit; classes.py: from_type *)

\* The module Python itself loads for an import written in module m.
PyAbsModule(m, st) ==
    IF st.level = 0 THEN st.module
    ELSE SubSeq(m, 1, Len(m) - st.level) \o st.module

\* getattr(import_module(root_fqn), node.name): the object the executed module
\* binds to the name, i.e. what its last top-level statement binding that name
\* made: the class of this module, or the object an import brought in (taken
\* to be defined in the module it is imported from).
class_type(src, m, name) ==
    LET idxs == {i \in 1..Len(src) : Binds(src[i]) = name}
        i == CHOOSE k \in idxs : \A j \in idxs : j <= k
        st == src[i]
    IN  IF st.kind = "ClassDef"
        THEN [module |-> m, name |-> name]
        ELSE [module |-> PyAbsModule(m, st), name |-> st.name]

\* from_type without the special case of initializer modules
from_type_with_init(ct) ==
    [name |-> ct.name,
     fully_qualified_name |-> ct.module \o <<ct.name>>,
     attributes |-> <<>>,
     base_classes |-> <<>>,
     module |-> None]

from_type(ct) ==
    [name |-> ct.name,
     fully_qualified_name |->
        IF Last(ct.module) = "__init__"
        THEN Front(ct.module) \o <<ct.name>>
        ELSE ct.module \o <<ct.name>>,
     attributes |-> <<>>,
     base_classes |-> <<>>,
     module |-> None]

RECURSIVE NullBases(_, _)
NullBases(d, pqns) ==
    IF pqns = <<>> THEN d
    ELSE NullBases(DictSet(d, Head(pqns), NoClass), Tail(pqns))

\* the expression a dotted name is written as
RECURSIVE DottedName(_)
DottedName(pqn) ==
    IF Len(pqn) = 1 THEN Name(pqn[1]) ELSE Attribute(DottedName(Front(pqn)), Last(pqn))

\* the ast.ClassDef node of a class statement
ClassDefNode(node) ==
    ClassNode(node.name, [i \in 1..Len(node.bases) |-> DottedName(node.bases[i])],
              node.body, <<>>)

\* the loops of visit_ClassDef over what the ClassVisitor found
ClassFound(_class, found) ==
    [_class EXCEPT !.attributes = found.attributes,
                   !.base_classes = NullBases(<<>>, found.parent_classes_pqn)]

visit_ClassDef(src, m, node) ==
    ClassFound(from_type(class_type(src, m, node.name)),
               ClassVisitor_visit(NewClassVisitor, ClassDefNode(node)))

visit_ImportFrom(node) ==
    [module_name |-> node.module, name |-> node.name, alias |-> node.asname,
     level |-> node.level, fully_qualified_name |-> None]

RECURSIVE ImportTable(_, _)
ImportTable(d, imports) ==
    IF imports = <<>> THEN d
    ELSE LET imp == Head(imports)
             k == IF imp.alias # NoAlias THEN imp.alias ELSE imp.name
         IN  ImportTable(DictSet(d, k, imp), Tail(imports))

\* PythonModule.from_imported_module followed by PythonModule.visit
visit(src, m) ==
    LET cdefs == SelectSeq(src, LAMBDA st : st.kind = "ClassDef")
        idefs == SelectSeq(src, LAMBDA st : st.kind = "ImportFrom")
    IN  [name |-> Last(m),
         fully_qualified_name |-> m,
         classes |-> [i \in 1..Len(cdefs) |->
                        [visit_ClassDef(src, m, cdefs[i]) EXCEPT !.module = m]],
         import_statements |->
            ImportTable(<<>>, [i \in 1..Len(idefs) |-> visit_ImportFrom(idefs[i])]),
         parent_package |-> None]

has_classes(module) == Len(module.classes) > 0

parent_fully_qualified_name(x) == Front(x.fully_qualified_name)

-----------------------------------------------------------------------------
(* package.py: PythonPackage._add_module, _add_subpackage, walk *)

REGULAR == "REGULAR"
NAMESPACE == "NAMESPACE"

\* from_imported_package / py2puml(): REGULAR when the directory has an
\* __init__.py
PackageTypeOf(src, p) ==
    IF (p \o <<"__init__">>) \in DOMAIN src THEN REGULAR ELSE NAMESPACE

NewPackage(src, p, depth) ==
    [name |-> Last(p), fully_qualified_name |-> p, depth |-> depth,
     type |-> PackageTypeOf(src, p), modules |-> <<>>, subpackages |-> <<>>,
     parent_package |-> None, classes |-> <<>>]

\* _add_module attaching every module, with classes or not
AddVisited_always(tree, module, module_fqn, skip_empty) ==
    LET pp == parent_fully_qualified_name(module)
        refs == [i \in 1..Len(module.classes) |-> [mod |-> module_fqn, idx |-> i]]
    IN  [tree EXCEPT
            !.pkgs = [@ EXCEPT
                      ![pp].modules = Append(@, module_fqn),
                      ![pp].classes =
                          IF module.name = "__init__" THEN @ \o refs ELSE @],
            !.mods = (module_fqn :> [module EXCEPT !.parent_package = pp]) @@ @]

\* _add_module once the module is visited
AddVisited(tree, module, module_fqn, skip_empty) ==
    LET pp == parent_fully_qualified_name(module)
        refs == [i \in 1..Len(module.classes) |-> [mod |-> module_fqn, idx |-> i]]
    IN  IF ~skip_empty \/ has_classes(module)
        THEN [tree EXCEPT
                !.pkgs = [@ EXCEPT
                          ![pp].modules = Append(@, module_fqn),
                          ![pp].classes =
                              IF module.name = "__init__" THEN @ \o refs ELSE @],
                !.mods = (module_fqn :> [module EXCEPT !.parent_package = pp]) @@ @]
        ELSE tree

\* import_module(module_fully_qualified_name) raises when the module does
\* not execute
_add_module(tree, src, module_fqn, skip_empty) ==
    IF tree.raised # "none" THEN tree
    ELSE IF module_fqn \notin DOMAIN src
    THEN [tree EXCEPT !.raised = "ModuleNotFoundError"]
    ELSE IF ~Executes(src[module_fqn])
    THEN [tree EXCEPT !.raised = ImportError(src[module_fqn])]
    ELSE AddVisited(tree, visit(src[module_fqn], module_fqn), module_fqn, skip_empty)

\* all_packages[fqn] is set before all_packages[parent fqn] is read: without
\* the parent the subpackage stays registered and the KeyError leaves it
_add_subpackage(tree, src, subpackage_fqn) ==
    LET pp == Front(subpackage_fqn)
        sub == [NewPackage(src, subpackage_fqn, tree.pkgs[pp].depth + 1)
                    EXCEPT !.parent_package = pp]
    IN  IF tree.raised # "none" THEN tree
        ELSE IF pp \notin DOMAIN tree.pkgs
        THEN [tree EXCEPT
                !.pkgs = (subpackage_fqn :> NewPackage(src, subpackage_fqn, 0)) @@ @,
                !.raised = "KeyError"]
        ELSE [tree EXCEPT !.pkgs =
                (subpackage_fqn :> sub) @@
                [tree.pkgs EXCEPT ![pp].subpackages = DictSet(@, sub.name, subpackage_fqn)]]

RECURSIVE AddModuleFiles(_, _, _, _)
AddModuleFiles(tree, src, p, names) ==
    IF names = <<>> THEN tree
    ELSE AddModuleFiles(_add_module(tree, src, p \o <<Head(names)>>, FALSE),
                        src, p, Tail(names))

\* one round of walk's loop over namespace_packages_names
WalkPackage(tree, src, p) ==
    LET t1 == IF p = RootFqn THEN tree ELSE _add_subpackage(tree, src, p)
        t2 == IF t1.raised = "none" /\ t1.pkgs[p].type = REGULAR
              THEN _add_module(t1, src, p \o <<"__init__">>, TRUE)
              ELSE t1
    IN  AddModuleFiles(t2, src, p, ModuleFiles(p))

RECURSIVE WalkPackages(_, _, _)
WalkPackages(tree, src, names) ==
    IF names = <<>> THEN tree
    ELSE WalkPackages(WalkPackage(tree, src, RootFqn \o Head(names)), src, Tail(names))

\* the root package object before walk: no module, no subpackage; `raised`
\* is the exception the last call on the tree ended with
RootPackage(src) ==
    [pkgs |-> (RootFqn :> NewPackage(src, RootFqn, 0)), mods |-> << >>,
     raised |-> "none"]

\* PythonPackage(path=..., name=..., fully_qualified_name=..., _type=...)
PythonPackage(src, _type) ==
    [RootPackage(src) EXCEPT !.pkgs[RootFqn].type = _type]

NewTree == RootPackage(<< >>)

\* open(path, 'w') and Path.unlink() on the files
Create(src, f) == (f :> <<>>) @@ [m \in DOMAIN src \ {f} |-> src[m]]
Unlink(src, f) == [m \in DOMAIN src \ {f} |-> src[m]]

\* walk's probe with the temporary __init__.py left in place
FilesAfterProbe_keep(tree, src) ==
    IF tree.pkgs[RootFqn].type = NAMESPACE THEN Create(src, RootInit) ELSE src

\* the files once find_namespace_packages has run: for a NAMESPACE root the
\* temporary __init__.py is created, the packages are searched, and it is
\* deleted, before any module is imported
FilesAfterProbe(tree, src) ==
    IF tree.pkgs[RootFqn].type = NAMESPACE
    THEN Unlink(Create(src, RootInit), RootInit)
    ELSE src

\* the loop of walk over the packages found, on the files the probe left
walk(tree, src) == WalkPackages(tree, src, <<None>> \o PackageNames)

\* find_all_classes: the modules' classes, then the subpackages', recursively
RECURSIVE find_all_classes(_, _)
RECURSIVE find_in_subpackages(_, _)
find_all_classes(tree, p) ==
    LET ms == tree.pkgs[p].modules
        RECURSIVE own(_)
        own(k) == IF k > Len(ms) THEN <<>>
                  ELSE [i \in 1..Len(tree.mods[ms[k]].classes) |->
                            [mod |-> ms[k], idx |-> i]] \o own(k + 1)
    IN  own(1) \o find_in_subpackages(tree, DictValues(tree.pkgs[p].subpackages))
find_in_subpackages(tree, subs) ==
    IF subs = <<>> THEN <<>>
    ELSE find_all_classes(tree, Head(subs)) \o find_in_subpackages(tree, Tail(subs))

ClassAt(tree, ref) == tree.mods[ref.mod].classes[ref.idx]

-----------------------------------------------------------------------------
(* module.py: ImportStatement.resolve_relative_import;                     *)
(* package.py: PythonPackage.resolve_relative_imports                      *)

\* x.parent_package, for a module or a package of the tree
ParentOf(tree, x) ==
    IF x \in DOMAIN tree.mods THEN tree.mods[x].parent_package
    ELSE tree.pkgs[x].parent_package

\* the while loop: `level` parent_package links up from x
RECURSIVE Ascend(_, _, _)
Ascend(tree, x, level) ==
    IF level = 0 THEN [ok |-> TRUE, at |-> x]
    ELSE IF ParentOf(tree, x) = None THEN [ok |-> FALSE, at |-> x]
    ELSE Ascend(tree, ParentOf(tree, x), level - 1)

is_relative(imp) == imp.level > 0

\* resolve_relative_import with the level counted from the module's package
\* instead of from the module (one link too many)
resolve_relative_import_from_package(imp, tree, module) ==
    IF imp.level = 0
    THEN [raised |-> "ValueError", imp |-> imp]
    ELSE LET r == Ascend(tree, ParentOf(tree, module), imp.level)
         IN  IF ~r.ok
             THEN [raised |-> "Exception", imp |-> imp]
             ELSE [raised |-> "none",
                   imp |-> [imp EXCEPT !.fully_qualified_name =
                              tree.pkgs[r.at].fully_qualified_name \o Str(imp.module_name)]]

\* resolve_relative_import assigning the name of the last package reached
\* before it finds that the parents ran out
resolve_relative_import_assign_first(imp, tree, module) ==
    IF imp.level = 0
    THEN [raised |-> "ValueError", imp |-> imp]
    ELSE LET r == Ascend(tree, module, imp.level)
         IN  IF ~r.ok
             THEN [raised |-> "Exception",
                   imp |-> [imp EXCEPT !.fully_qualified_name =
                              r.at \o Str(imp.module_name)]]
             ELSE [raised |-> "none",
                   imp |-> [imp EXCEPT !.fully_qualified_name =
                              tree.pkgs[r.at].fully_qualified_name \o Str(imp.module_name)]]

\* resolve_relative_import adding the module name once more to an import
\* that holds a fully qualified name already
resolve_relative_import_accumulating(imp, tree, module) ==
    IF imp.level = 0
    THEN [raised |-> "ValueError", imp |-> imp]
    ELSE LET r == Ascend(tree, module, imp.level)
         IN  IF ~r.ok
             THEN [raised |-> "Exception", imp |-> imp]
             ELSE [raised |-> "none",
                   imp |-> [imp EXCEPT !.fully_qualified_name =
                              tree.pkgs[r.at].fully_qualified_name \o Str(imp.module_name)
                              \o (IF imp.fully_qualified_name = None THEN <<>>
                                  ELSE Str(imp.module_name))]]

resolve_relative_import(imp, tree, module) ==
    IF imp.level = 0
    THEN [raised |-> "ValueError", imp |-> imp]
    ELSE LET r == Ascend(tree, module, imp.level)
         IN  IF ~r.ok
             THEN [raised |-> "Exception", imp |-> imp]
             ELSE [raised |-> "none",
                   imp |-> [imp EXCEPT !.fully_qualified_name =
                              tree.pkgs[r.at].fully_qualified_name \o Str(imp.module_name)]]

\* the inner loop over module.import_statements.values(), from the i-th on
RECURSIVE ResolveModuleImports(_, _, _)
ResolveModuleImports(tree, m, i) ==
    IF i > Len(tree.mods[m].import_statements)
    THEN [raised |-> "none", tree |-> tree]
    ELSE LET imp == tree.mods[m].import_statements[i].val
             r == IF is_relative(imp)
                  THEN resolve_relative_import(imp, tree, m)
                  ELSE [raised |-> "none",
                        imp |-> [imp EXCEPT !.fully_qualified_name = imp.module_name]]
         IN  IF r.raised # "none"
             THEN [raised |-> r.raised, tree |-> tree]
             ELSE ResolveModuleImports(
                    [tree EXCEPT !.mods[m].import_statements[i].val = r.imp], m, i + 1)

RECURSIVE ResolveModules(_, _)
ResolveModules(tree, ms) ==
    IF ms = <<>> THEN [raised |-> "none", tree |-> tree]
    ELSE LET r == ResolveModuleImports(tree, Head(ms), 1)
         IN  IF r.raised # "none" THEN r ELSE ResolveModules(r.tree, Tail(ms))

RECURSIVE resolve_relative_imports(_, _)
RECURSIVE ResolveSubpackages(_, _)
resolve_relative_imports(tree, p) ==
    LET r == ResolveModules(tree, tree.pkgs[p].modules)
    IN  IF r.raised # "none" THEN r
        ELSE ResolveSubpackages(r.tree, DictValues(tree.pkgs[p].subpackages))
ResolveSubpackages(tree, subs) ==
    IF subs = <<>> THEN [raised |-> "none", tree |-> tree]
    ELSE LET r == resolve_relative_imports(tree, Head(subs))
         IN  IF r.raised # "none" THEN r ELSE ResolveSubpackages(r.tree, Tail(subs))

-----------------------------------------------------------------------------
(* module.py: PythonModule.resolve_class_name, resolve_class_pqn *)

ClassNames(module) == {module.classes[i].name : i \in 1..Len(module.classes)}

resolve_class_name(module, class_name) ==
    IF class_name \in ClassNames(module)
    THEN [raised |-> "none", val |-> module.fully_qualified_name \o <<class_name>>]
    ELSE IF class_name \in DictKeys(module.import_statements)
    THEN LET import_statement == DictGet(module.import_statements, class_name)
         IN  [raised |-> "none",
              val |-> Str(import_statement.fully_qualified_name) \o <<import_statement.name>>]
    ELSE [raised |-> "none", val |-> None]

\* resolve_class_pqn that leaves the alias in the dotted name
resolve_class_pqn_keep_alias(module, class_pqn) ==
    IF class_pqn[1] \in DictKeys(module.import_statements)
    THEN LET import_statement == DictGet(module.import_statements, class_pqn[1])
         IN  IF import_statement.fully_qualified_name = None
             THEN [raised |-> "ValueError", val |-> None]
             ELSE [raised |-> "none",
                   val |-> import_statement.fully_qualified_name \o class_pqn]
    ELSE [raised |-> "none", val |-> None]

resolve_class_pqn(module, class_pqn) ==
    IF class_pqn[1] \in DictKeys(module.import_statements)
    THEN LET import_statement == DictGet(module.import_statements, class_pqn[1])
         IN  IF import_statement.fully_qualified_name = None
             THEN [raised |-> "ValueError", val |-> None]
             ELSE [raised |-> "none",
                   val |-> import_statement.fully_qualified_name \o
                           (IF import_statement.alias # NoAlias
                            THEN <<import_statement.name>> \o Tail(class_pqn)
                            ELSE class_pqn)]
    ELSE [raised |-> "none", val |-> None]

-----------------------------------------------------------------------------
(* package.py: PythonPackage.resolve_class_inheritance;                    *)
(* domain/umlclass.py: PythonPackage.resolve_class_inheritance,            *)
(* ClassDiagram.define_relations, ClassDiagram.generate; py2puml.py        *)

\* classes_by_fqn = {_class.fully_qualified_name: _class for _class in all_classes}
classes_by_fqn(tree, all_classes, fqn) ==
    LET hits == {i \in 1..Len(all_classes) :
                    ClassAt(tree, all_classes[i]).fully_qualified_name = fqn}
    IN  IF hits = {} THEN NoClass
        ELSE all_classes[CHOOSE i \in hits : \A j \in hits : j <= i]

RECURSIVE DelKeys(_, _)
DelKeys(d, ks) == IF ks = <<>> THEN d ELSE DelKeys(DictDel(d, Head(ks)), Tail(ks))

\* the loop over _class.base_classes.keys(), from the j-th key on; the keys of
\* the bases that were not found are deleted after the loop when `remove` holds
RECURSIVE ResolveBases(_, _, _, _, _, _)
ResolveBases(tree, all_classes, c, j, remove_keys, remove) ==
    LET _class == ClassAt(tree, c)
        module == tree.mods[_class.module]
    IN  IF j > Len(_class.base_classes)
        THEN [raised |-> "none",
              tree |-> IF remove
                       THEN [tree EXCEPT !.mods[c.mod].classes[c.idx].base_classes =
                                DelKeys(@, remove_keys)]
                       ELSE tree]
        ELSE LET base_class_pqn == _class.base_classes[j].key
                 r == IF Len(base_class_pqn) > 1
                      THEN resolve_class_pqn(module, base_class_pqn)
                      ELSE resolve_class_name(module, base_class_pqn[1])
                 base_class == classes_by_fqn(tree, all_classes, r.val)
             IN  IF r.raised # "none" THEN [raised |-> r.raised, tree |-> tree]
                 ELSE IF base_class # NoClass
                 THEN ResolveBases(
                        [tree EXCEPT !.mods[c.mod].classes[c.idx].base_classes[j].val =
                            base_class],
                        all_classes, c, j + 1, remove_keys, remove)
                 ELSE ResolveBases(tree, all_classes, c, j + 1,
                                   Append(remove_keys, base_class_pqn), remove)

RECURSIVE ResolveClasses(_, _, _, _)
ResolveClasses(tree, all_classes, i, remove) ==
    IF i > Len(all_classes) THEN [raised |-> "none", tree |-> tree]
    ELSE LET r == ResolveBases(tree, all_classes, all_classes[i], 1, <<>>, remove)
         IN  IF r.raised # "none" THEN r
             ELSE ResolveClasses(r.tree, all_classes, i + 1, remove)

\* resolve_class_inheritance without the final deletion of remove_keys
resolve_class_inheritance_keep_keys(tree) ==
    ResolveClasses(tree, find_all_classes(tree, RootFqn), 1, FALSE)

\* package.py
resolve_class_inheritance(tree) ==
    ResolveClasses(tree, find_all_classes(tree, RootFqn), 1, TRUE)

\* domain/umlclass.py: the unresolved keys stay, bound to None
umlclass_resolve_class_inheritance(tree) ==
    ResolveClasses(tree, find_all_classes(tree, RootFqn), 1, FALSE)

InheritanceRelation(source, destination) ==
    [source |-> source, destination |-> destination]

\* the loop over base_classes.values() of one class, from the j-th on
RECURSIVE ClassRelations(_, _, _)
ClassRelations(tree, _class, j) ==
    IF j > Len(_class.base_classes) THEN [raised |-> "none", relations |-> <<>>]
    ELSE LET base_class == _class.base_classes[j].val
         IN  IF base_class = NoClass
             THEN [raised |-> "AttributeError", relations |-> <<>>]
             ELSE LET rest == ClassRelations(tree, _class, j + 1)
                      rel == InheritanceRelation(
                                _class.fully_qualified_name,
                                ClassAt(tree, base_class).fully_qualified_name)
                  IN  [raised |-> rest.raised, relations |-> <<rel>> \o rest.relations]

RECURSIVE define_relations(_, _)
define_relations(tree, classes) ==
    IF classes = <<>> THEN [raised |-> "none", relations |-> <<>>]
    ELSE LET r == ClassRelations(tree, ClassAt(tree, Head(classes)), 1)
         IN  IF r.raised # "none" THEN r
             ELSE LET rest == define_relations(tree, Tail(classes))
                  IN  [raised |-> rest.raised, relations |-> r.relations \o rest.relations]

\* InheritanceRelation.as_puml with the two ends exchanged
InheritanceRelation_as_puml_reversed(relation) ==
    <<relation.source, " <|-- ", relation.destination, "\n">>

\* f'{self.destination} <|-- {self.source}\n'
InheritanceRelation_as_puml(relation) ==
    <<relation.destination, " <|-- ", relation.source, "\n">>

\* f'@startuml {self.package.fully_qualified_name}\n'
header(tree) == <<"@startuml ", tree.pkgs[RootFqn].fully_qualified_name, "\n">>

footer == <<"footer Generated by //py2puml//\n@enduml\n">>

\* the fragments generate yields, in order; `text` is the string of a
\* fragment (of a class block its first line, of the namespace block nothing)
generate(tree, classes, relations) ==
    << [kind |-> "header", fqn |-> tree.pkgs[RootFqn].fully_qualified_name,
        base |-> None, text |-> header(tree)] >>
    \o << [kind |-> "namespace", fqn |-> None, base |-> None, text |-> <<>>] >>
    \o [i \in 1..Len(classes) |->
          [kind |-> "class", fqn |-> ClassAt(tree, classes[i]).fully_qualified_name,
           base |-> None,
           text |-> <<"class ", ClassAt(tree, classes[i]).fully_qualified_name, " {">>]]
    \o [i \in 1..Len(relations) |->
          [kind |-> "inheritance", fqn |-> relations[i].source,
           base |-> relations[i].destination,
           text |-> InheritanceRelation_as_puml(relations[i])]]
    \o << [kind |-> "footer", fqn |-> None, base |-> None, text |-> footer] >>

\* diagram.generate(), reached when define_relations did not raise
Generated(tree, classes, r) ==
    IF r.raised # "none"
    THEN [raised |-> r.raised, tree |-> tree, output |-> <<>>]
    ELSE [raised |-> "none", tree |-> tree,
          output |-> generate(tree, classes, r.relations)]

\* ClassDiagram(package=package), define_relations(), generate()
ClassDiagram(tree, classes) ==
    Generated(tree, classes, define_relations(tree, classes))

\* the rest of py2puml() once resolve_class_inheritance has run
Inherited(r) ==
    IF r.raised # "none"
    THEN [raised |-> r.raised, tree |-> r.tree, output |-> <<>>]
    ELSE ClassDiagram(r.tree, find_all_classes(r.tree, RootFqn))

\* the rest of py2puml() once resolve_relative_imports has run
Imported(r) ==
    IF r.raised # "none"
    THEN [raised |-> r.raised, tree |-> r.tree, output |-> <<>>]
    ELSE Inherited(umlclass_resolve_class_inheritance(r.tree))

\* the rest of py2puml() once walk has run
Walked(tree) ==
    IF tree.raised # "none"
    THEN [raised |-> tree.raised, tree |-> tree, output |-> <<>>]
    ELSE Imported(resolve_relative_imports(tree, RootFqn))

py2puml(src) == Walked(walk(RootPackage(src), FilesAfterProbe(RootPackage(src), src)))

-----------------------------------------------------------------------------
(* parsing/moduleresolver.py: ModuleResolver; parsing/astvisitors.py:       *)
(* AssignedVariablesCollector, ConstructorVisitor.                          *)
(* A text is the sequence of its pieces, '.' being a piece of its own, so   *)
(* that str.startswith is the prefix relation on sequences.                 *)

\* the pieces of one name segment
Pieces(segment) == IF segment = "rootx" THEN <<"root", "x">> ELSE <<segment>>

\* '.'.join(segments)
RECURSIVE Text(_)
Text(segments) ==
    IF segments = <<>> THEN <<>>
    ELSE IF Len(segments) = 1 THEN Pieces(segments[1])
    ELSE Pieces(Head(segments)) \o <<".">> \o Text(Tail(segments))

\* text.startswith(prefix)
startswith(text, prefix) ==
    Len(prefix) <= Len(text) /\ SubSeq(text, 1, Len(prefix)) = prefix

\* what a name of a module namespace is bound to: a class (its __module__
\* and __name__) or a module (its vars); NotFound is getattr's default None
ClassObject(mod, name) == [kind |-> "class", module |-> mod, name |-> name, vars |-> <<>>]
ModuleObject(name, members) == [kind |-> "module", module |-> <<>>, name |-> name, vars |-> members]
NotFound == [kind |-> "None", module |-> <<>>, name |-> "", vars |-> <<>>]

\* module.__builtins__
Builtins ==
    << [key |-> "int", val |-> ClassObject(<<"builtins">>, "int")],
       [key |-> "str", val |-> ClassObject(<<"builtins">>, "str")] >>

\* vars(top.root.m), where m.py is
\*   from top.rootx.z import Z ; from top.root.p import P
\*   from top.root.p import P as K ; from top.root import p
\*   class A: def __init__(self, v...): ...
ModuleM ==
    ModuleObject(<<"top", "root", "m">>,
        << [key |-> "Z", val |-> ClassObject(<<"top", "rootx", "z">>, "Z")],
           [key |-> "P", val |-> ClassObject(<<"top", "root", "p">>, "P")],
           [key |-> "K", val |-> ClassObject(<<"top", "root", "p">>, "P")],
           [key |-> "p", val |->
                ModuleObject(<<"top", "root", "p">>,
                    << [key |-> "P", val |-> ClassObject(<<"top", "root", "p">>, "P")] >>)],
           [key |-> "A", val |-> ClassObject(<<"top", "root", "m">>, "A")] >>)

\* the root_fqn the visitor is made with
RootFqnText == Text(RootFqn)

EMPTY_NAMESPACED_TYPE == [full_namespace |-> None, type_name |-> None]

search_in_module_or_builtins(searched_module, namespace) ==
    IF searched_module = NotFound THEN NotFound
    ELSE IF namespace \in DictKeys(searched_module.vars)
    THEN DictGet(searched_module.vars, namespace)
    ELSE IF searched_module.kind = "module" /\ namespace \in DictKeys(Builtins)
    THEN DictGet(Builtins, namespace)
    ELSE NotFound

\* reduce(search_in_module_or_builtins, namespaces, module)
RECURSIVE reduce_search(_, _)
reduce_search(namespaces, found) ==
    IF namespaces = <<>> THEN found
    ELSE reduce_search(Tail(namespaces),
                       search_in_module_or_builtins(found, Head(namespaces)))

\* a module has no __module__: leaf_type.__module__ is an AttributeError
search_in_module(namespaces, module) ==
    LET leaf_type == reduce_search(namespaces, module)
    IN  IF leaf_type = NotFound
        THEN [raised |-> "none", val |-> EMPTY_NAMESPACED_TYPE]
        ELSE IF leaf_type.kind = "module"
        THEN [raised |-> "AttributeError", val |-> EMPTY_NAMESPACED_TYPE]
        ELSE [raised |-> "none",
              val |-> [full_namespace |-> Text(leaf_type.module \o <<leaf_type.name>>),
                       type_name |-> <<leaf_type.name>>]]

\* ModuleResolver(module).resolve_full_namespace_type(partial_dotted_path):
\* first the variable of the module whose value is the class of that full
\* name, then the search along the dotted path
resolve_full_namespace_type(module, partial_dotted_path) ==
    LET hits == {i \in 1..Len(module.vars) :
                    /\ module.vars[i].val.kind = "class"
                    /\ Text(module.vars[i].val.module \o <<module.vars[i].val.name>>)
                          = Text(partial_dotted_path)}
    IN  IF hits # {}
        THEN LET i == CHOOSE i \in hits : \A j \in hits : i <= j
             IN  [raised |-> "none",
                  val |-> [full_namespace |-> Text(partial_dotted_path),
                           type_name |-> <<module.vars[i].key>>]]
        ELSE search_in_module(partial_dotted_path, module)

\* an annotation that is absent (None)
NoAnnotation == [kind |-> "None", id |-> "", elts |-> <<>>]

\* Variable(id, type_expr)
Variable(id, type_expr) == [id |-> id, type_expr |-> type_expr]

\* astvisitors.ConstructorVisitor.__init__ for class A of module m;
\* instance_attributes and uml_attributes hold the same (name, type) pairs
\* and are kept as one list
NewRelationsVisitor ==
    [class_fqn |-> Text(ModuleM.name \o <<"A">>), root_fqn |-> RootFqnText,
     class_self_id |-> "", variables_namespace |-> <<>>, uml_attributes |-> <<>>,
     uml_relations_by_target_fqn |-> <<>>, raised |-> "none"]

UmlRelation(source_fqn, target_fqn, type) ==
    [source_fqn |-> source_fqn, target_fqn |-> target_fqn, type |-> type]

\* the dict comprehension of extend_relations over target_fqns, from the
\* i-th on; None.startswith is an AttributeError
RECURSIVE NewRelations(_, _, _, _)
NewRelations(k, target_fqns, i, new) ==
    IF i > Len(target_fqns) THEN [raised |-> "none", val |-> new]
    ELSE IF target_fqns[i] = None THEN [raised |-> "AttributeError", val |-> new]
    ELSE NewRelations(k, target_fqns, i + 1,
            IF /\ startswith(target_fqns[i], k.root_fqn)
               /\ target_fqns[i] \notin DictKeys(k.uml_relations_by_target_fqn)
            THEN DictSet(new, target_fqns[i],
                         UmlRelation(k.class_fqn, target_fqns[i], "COMPOSITION"))
            ELSE new)

\* dict.update
RECURSIVE DictUpdate(_, _)
DictUpdate(d, new) ==
    IF new = <<>> THEN d
    ELSE DictUpdate(DictSet(d, Head(new).key, Head(new).val), Tail(new))

extend_relations(k, target_fqns) ==
    LET r == NewRelations(k, target_fqns, 1, <<>>)
    IN  IF r.raised # "none" THEN [k EXCEPT !.raised = r.raised]
        ELSE [k EXCEPT !.uml_relations_by_target_fqn = DictUpdate(@, r.val)]

\* the last variable of the namespace with that id, or None
\* get_from_namespace searching the oldest binding first
get_from_namespace_oldest(k, variable_id) ==
    LET hits == {i \in 1..Len(k.variables_namespace) :
                    k.variables_namespace[i].id = variable_id}
    IN  IF hits = {} THEN None
        ELSE << k.variables_namespace[CHOOSE i \in hits : \A j \in hits : i <= j] >>

get_from_namespace(k, variable_id) ==
    LET hits == {i \in 1..Len(k.variables_namespace) :
                    k.variables_namespace[i].id = variable_id}
    IN  IF hits = {} THEN None
        ELSE << k.variables_namespace[CHOOSE i \in hits : \A j \in hits : j <= i] >>

\* derive_type_annotation_details for the annotations that are no Subscript:
\* (short_type, full_namespaced_definitions)
derive_type_annotation_details(annotation) ==
    IF annotation.kind \in {"Name", "Attribute"}
    THEN LET r == resolve_full_namespace_type(ModuleM, elements(annotation))
         IN  [raised |-> r.raised, short_type |-> r.val.type_name,
              definitions |-> <<r.val.full_namespace>>]
    ELSE [raised |-> "none", short_type |-> None, definitions |-> <<>>]

\* AssignedVariablesCollector(class_self_id, annotation).visit(node):
\* [variables, self_attributes]
\* visit_Attribute recording the attribute of any name
AssignedVariablesCollector_visit_Attribute_of_any(col, class_self_id, annotation, node) ==
    IF node.elts[1].kind = "Name"
    THEN [col EXCEPT !.self_attributes = Append(@, Variable(node.id, annotation))]
    ELSE col

AssignedVariablesCollector_visit_Attribute(col, class_self_id, annotation, node) ==
    IF node.elts[1].kind = "Name" /\ node.elts[1].id = class_self_id
    THEN [col EXCEPT !.self_attributes = Append(@, Variable(node.id, annotation))]
    ELSE col

RECURSIVE AssignedVariablesCollector_visit(_, _, _, _)
RECURSIVE AssignedVariablesCollector_generic_visit(_, _, _, _)
AssignedVariablesCollector_visit(col, class_self_id, annotation, node) ==
    IF node.kind = "Name"
    THEN IF node.id # class_self_id
         THEN [col EXCEPT !.variables = Append(@, Variable(node.id, annotation))]
         ELSE col
    ELSE IF node.kind = "Attribute"
    THEN AssignedVariablesCollector_visit_Attribute(col, class_self_id, annotation, node)
    ELSE IF node.kind = "Subscript" THEN col
    ELSE AssignedVariablesCollector_generic_visit(col, class_self_id, annotation, node.elts)
AssignedVariablesCollector_generic_visit(col, class_self_id, annotation, elts) ==
    IF elts = <<>> THEN col
    ELSE AssignedVariablesCollector_generic_visit(
            AssignedVariablesCollector_visit(col, class_self_id, annotation, Head(elts)),
            class_self_id, annotation, Tail(elts))

NewCollector == [variables |-> <<>>, self_attributes |-> <<>>]

\* uml_attributes.append / instance_attributes.append, then extend_relations
RecordAttribute(k, name, details) ==
    IF details.raised # "none" THEN [k EXCEPT !.raised = details.raised]
    ELSE extend_relations(
            [k EXCEPT !.uml_attributes =
                Append(@, [name |-> name, type |-> details.short_type])],
            details.definitions)

\* the loops over variables_collector.self_attributes, from the i-th on
RECURSIVE RecordAttributes(_, _, _)
RecordAttributes(k, self_attributes, i) ==
    IF i > Len(self_attributes) \/ k.raised # "none" THEN k
    ELSE RecordAttributes(
            RecordAttribute(k, self_attributes[i].id,
                derive_type_annotation_details(self_attributes[i].type_expr)),
            self_attributes, i + 1)

RelationsVisitor_visit_AnnAssign(k, node) ==
    LET col == AssignedVariablesCollector_visit(NewCollector, k.class_self_id,
                                                node.elts[2], node.elts[1])
        details == derive_type_annotation_details(node.elts[2])
        k1 == IF details.raised # "none" THEN [k EXCEPT !.raised = details.raised]
              ELSE RecordAttributes(k, col.self_attributes, 1)
    IN  IF k1.raised # "none" THEN k1
        ELSE [k1 EXCEPT !.variables_namespace = @ \o col.variables]

\* the loop of visit_Assign over node.targets, from the i-th on
RECURSIVE AssignTargets(_, _, _)
AssignTargets(k, node, i) ==
    IF i >= Len(node.elts) \/ k.raised # "none" THEN k
    ELSE LET col == AssignedVariablesCollector_visit(NewCollector, k.class_self_id,
                                                     NoAnnotation, node.elts[i])
             value == Last(node.elts)
             k1 == IF Len(col.self_attributes) = 1 /\ value.kind = "Name"
                   THEN LET assigned_variable == get_from_namespace(k, value.id)
                        IN  IF assigned_variable # None
                            THEN RecordAttribute(k, col.self_attributes[1].id,
                                    derive_type_annotation_details(
                                        assigned_variable[1].type_expr))
                            ELSE k
                   ELSE RecordAttributes(k, col.self_attributes, 1)
         IN  IF k1.raised # "none" THEN k1
             ELSE AssignTargets([k1 EXCEPT !.variables_namespace = @ \o col.variables],
                                node, i + 1)

RelationsVisitor_visit_Assign(k, node) == AssignTargets(k, node, 1)

\* SignatureVariablesCollector().visit(node): the variables of the arguments
SignatureVariables(node) ==
    LET args == node.elts[1].elts
    IN  [i \in 1..Len(args) |->
            Variable(args[i].id,
                     IF args[i].elts = <<>> THEN NoAnnotation ELSE args[i].elts[1])]

RECURSIVE RelationsVisitor_visit(_, _)
RECURSIVE RelationsVisitor_generic_visit(_, _)
RelationsVisitor_visit(k, node) ==
    IF k.raised # "none" THEN k
    ELSE IF node.kind = "FunctionDef"
    THEN RelationsVisitor_generic_visit(
            IF node.id = "__init__"
            THEN LET variables == SignatureVariables(node)
                 IN  [k EXCEPT !.class_self_id =
                                    IF variables = <<>> THEN "" ELSE variables[1].id,
                               !.variables_namespace = variables]
            ELSE k,
            node.elts)
    ELSE IF node.kind = "Assign" THEN RelationsVisitor_visit_Assign(k, node)
    ELSE IF node.kind = "AnnAssign" THEN RelationsVisitor_visit_AnnAssign(k, node)
    ELSE RelationsVisitor_generic_visit(k, node.elts)
RelationsVisitor_generic_visit(k, elts) ==
    IF elts = <<>> \/ k.raised # "none" THEN k
    ELSE RelationsVisitor_generic_visit(RelationsVisitor_visit(k, Head(elts)), Tail(elts))

-----------------------------------------------------------------------------
(* The calls a user of the package tree can make *)

\* no node was handed to a visitor
NoStmt == Constant

astvars == <<stmt, visitor>>
treevars == <<fs, package, last, output>>

NoCall ==
    [op |-> "none", module |-> None, arg |-> <<>>, level |-> 0,
     before |-> None, val |-> None]

\* ImportStatement objects made by hand, as a caller of resolve_relative_import
\* makes them; one may carry the result of an earlier resolution
MaxLevel == 4

ImportStatements ==
    {[module_name |-> mn, name |-> "B", alias |-> NoAlias, level |-> lv,
      fully_qualified_name |-> f] :
        mn \in {<<"a", "b">>, <<"b">>, <<"a">>, <<"x", "y">>},
        lv \in 0..MaxLevel,
        f \in {None, <<"old", "b">>}}

Init ==
    /\ \E k \in 0..MaxStmts : \E y \in [1..k -> YStmts] :
          Executes(y) /\ fs = Sources(y)
    /\ package = NewTree
    /\ phase = <<>>
    /\ raised = "none"
    /\ last = NoCall
    /\ output = <<>>
    /\ stmt = NoStmt
    /\ visitor = NewAssignmentVisitor

Walk ==
    /\ phase = <<>>
    /\ fs' = FilesAfterProbe(package, fs)
    /\ package' = walk(package, fs')
    /\ raised' = package'.raised
    /\ phase' = <<"walk">>
    /\ UNCHANGED <<last, output>>
    /\ UNCHANGED astvars

\* import_statement.resolve_relative_import(module)
ResolveRelativeImport ==
    /\ phase = <<"walk">>
    /\ \E m \in DOMAIN package.mods, imp \in ImportStatements :
         LET r == resolve_relative_import(imp, package, m)
         IN  /\ raised' = r.raised
             /\ last' = [op |-> "resolve_relative_import", module |-> m,
                         arg |-> imp.module_name, level |-> imp.level,
                         before |-> imp.fully_qualified_name,
                         val |-> r.imp.fully_qualified_name]
    /\ phase' = Append(phase, "resolve_relative_import")
    /\ UNCHANGED <<fs, package, output>>
    /\ UNCHANGED astvars

\* the phases of a tree both hierarchy passes have run on
Resolved == <<"walk", "resolve_relative_imports", "resolve_class_inheritance">>

\* package.resolve_relative_imports(), also a second time on a resolved tree
ResolveRelativeImports ==
    /\ \/ phase \in {<<"walk">>, <<"walk", "resolve_class_inheritance">>}
       \/ phase = Resolved /\ raised = "none"
    /\ LET r == resolve_relative_imports(package, RootFqn)
       IN  /\ package' = r.tree
           /\ raised' = r.raised
    /\ phase' = Append(phase, "resolve_relative_imports")
    /\ UNCHANGED <<fs, last, output>>
    /\ UNCHANGED astvars

\* package.resolve_class_inheritance(), also a second time
ResolveClassInheritance ==
    /\ \/ phase \in {<<"walk">>, <<"walk", "resolve_relative_imports">>}
       \/ phase = Append(Resolved, "resolve_relative_imports") /\ raised = "none"
    /\ LET r == resolve_class_inheritance(package)
       IN  /\ package' = r.tree
           /\ raised' = r.raised
    /\ phase' = Append(phase, "resolve_class_inheritance")
    /\ UNCHANGED <<fs, last, output>>
    /\ UNCHANGED astvars

QueryNames == {<<"B">>, <<"K">>, <<"b">>}
QueryPqns == {<<"K", "B">>, <<"b", "B">>}

\* module.resolve_class_name(name)
ResolveClassName ==
    /\ phase \in {<<"walk">>, <<"walk", "resolve_relative_imports">>}
    /\ \E n \in QueryNames :
         LET r == resolve_class_name(package.mods[ModY], n[1])
         IN  /\ raised' = r.raised
             /\ last' = [op |-> "resolve_class_name", module |-> ModY,
                         arg |-> n, level |-> 0, before |-> None, val |-> r.val]
    /\ phase' = Append(phase, "resolve_class_name")
    /\ UNCHANGED <<fs, package, output>>
    /\ UNCHANGED astvars

\* module.resolve_class_pqn(pqn)
ResolveClassPqn ==
    /\ phase \in {<<"walk">>, <<"walk", "resolve_relative_imports">>}
    /\ \E pqn \in QueryPqns :
         LET r == resolve_class_pqn(package.mods[ModY], pqn)
         IN  /\ raised' = r.raised
             /\ last' = [op |-> "resolve_class_pqn", module |-> ModY,
                         arg |-> pqn, level |-> 0, before |-> None, val |-> r.val]
    /\ phase' = Append(phase, "resolve_class_pqn")
    /\ UNCHANGED <<fs, package, output>>
    /\ UNCHANGED astvars

Py2puml ==
    /\ phase = <<>>
    /\ LET r == py2puml(fs)
       IN  /\ package' = r.tree
           /\ raised' = r.raised
           /\ output' = r.output
    /\ phase' = <<"py2puml">>
    /\ UNCHANGED <<fs, last>>
    /\ UNCHANGED astvars

Next ==
    \/ Walk
    \/ ResolveRelativeImports
    \/ ResolveClassInheritance
    \/ ResolveClassName
    \/ ResolveClassPqn
    \/ Py2puml

Spec == Init /\ [][Next]_vars

-----------------------------------------------------------------------------
(* resolve_relative_import called on hand-made imports, on a walked tree *)

\* x/y.py: 'from ..a.b import B', 'class D(B): ...'
YSource == <<ImportFrom(<<"a", "b">>, "B", NoAlias, 2), ClassDef("D", << <<"B">> >>)>>

InitImport ==
    /\ fs = Sources(YSource)
    /\ package = NewTree
    /\ phase = <<>>
    /\ raised = "none"
    /\ last = NoCall
    /\ output = <<>>
    /\ stmt = NoStmt
    /\ visitor = NewAssignmentVisitor

NextImport ==
    \/ Walk
    \/ ResolveRelativeImport

SpecImport == InitImport /\ [][NextImport]_vars

-----------------------------------------------------------------------------
(* AssignmentVisitor().visit(node) on one assignment statement *)

\* '<target> = <value>' with a single or a tuple target, a single or a tuple value
InitAssign ==
    /\ \E n \in 1..MaxElts, m \in 1..MaxElts :
         \E ts \in [1..n -> TargetElts], vs \in [1..m -> ValueElts] :
            stmt = Assign(<<IF n = 1 THEN ts[1] ELSE Tuple(ts)>>,
                          IF m = 1 THEN vs[1] ELSE Tuple(vs))
    /\ visitor = NewAssignmentVisitor
    /\ phase = <<>>
    /\ raised = "none"
    /\ fs = << >>
    /\ package = NewTree
    /\ last = NoCall
    /\ output = <<>>

VisitAssign ==
    /\ phase = <<>>
    /\ visitor' = AssignmentVisitor_visit_Assign(visitor, stmt)
    /\ raised' = visitor'.raised
    /\ phase' = <<"visit_Assign">>
    /\ UNCHANGED stmt
    /\ UNCHANGED treevars

NextAssign == VisitAssign

SpecAssign == InitAssign /\ [][NextAssign]_vars

-----------------------------------------------------------------------------
(* ClassVisitor(class_type, root_fqn).visit(node) on one class definition *)

MaxBody == 3

SelfAttr(name) == Attribute(Name("self"), name)

\* statements of an __init__ body
InitStmts ==
    {Assign(<<SelfAttr("x")>>, Name("v")),
     AnnAssign(SelfAttr("x"), Name("str"), Name("v")),
     Assign(<<SelfAttr("c")>>, Name("v"))}

\* def __init__(self, v: int): <one or two statements>
Constructors ==
    {FunctionDef("__init__", <<arg("self", <<>>), arg("v", <<Name("int")>>)>>, body, <<>>) :
        body \in [1..1 -> InitStmts] \cup [1..2 -> InitStmts]}

\* statements of a class body: 'c = 3', 'd: int = 3', a constructor,
\* 'def m(self): ...', '@property def p(self): ...'
ClassStmts ==
    {Assign(<<Name("c")>>, Constant), AnnAssign(Name("d"), Name("int"), Constant),
     FunctionDef("m", <<arg("self", <<>>)>>, <<>>, <<>>),
     FunctionDef("p", <<arg("self", <<>>)>>, <<>>, <<Name("property")>>)}
    \cup Constructors

\* statements of the body of a record-like class: 'street: str',
\* 'zipcode: str', 'city: str', 'c = 3', 'def m(self): ...'
FieldStmts ==
    {AnnDecl(Name("street"), Name("str")), AnnDecl(Name("zipcode"), Name("str")),
     AnnDecl(Name("city"), Name("str")), Assign(<<Name("c")>>, Constant),
     FunctionDef("m", <<arg("self", <<>>)>>, <<>>, <<>>)}

\* the decorator lists of a record-like class: none, '@dataclass',
\* '@dataclasses.dataclass', '@dataclass(frozen=True)', '@total_ordering'
FieldDecorators ==
    {<<>>, <<Name("dataclass")>>, <<Attribute(Name("dataclasses"), "dataclass")>>,
     <<Call(Name("dataclass"), <<Constant>>)>>, <<Name("total_ordering")>>}

\* a class nested in a class body:
\* '[@dataclass] class N[(Other)]: d: int = 3; def nm(self): ...'
NestedClasses ==
    {ClassNode("N", bases,
               <<AnnAssign(Name("d"), Name("int"), Constant),
                 FunctionDef("nm", <<arg("self", <<>>)>>, <<>>, <<>>)>>,
               decorator_list) :
        bases \in {<<>>, <<Name("Other")>>},
        decorator_list \in {<<>>, <<Name("dataclass")>>}}

\* '[@dataclass] class A[(b.B)]: <1..MaxBody statements>', or a record-like
\* class 'class Address: <1..MaxBody fields>' under one of FieldDecorators, or
\* 'class A[(b.B)]: c = 3; <a nested class>; <a statement>'
InitClass ==
    /\ \/ \E n \in 1..MaxBody :
            \E body \in [1..n -> ClassStmts],
               bases \in {<<>>, <<Attribute(Name("b"), "B")>>},
               decorator_list \in {<<>>, <<Name("dataclass")>>} :
                   stmt = ClassNode("A", bases, body, decorator_list)
       \/ \E n \in 1..MaxBody :
            \E body \in [1..n -> FieldStmts], decorator_list \in FieldDecorators :
                   stmt = ClassNode("Address", <<>>, body, decorator_list)
       \/ \E nested \in NestedClasses, s \in ClassStmts,
             bases \in {<<>>, <<Attribute(Name("b"), "B")>>} :
                   stmt = ClassNode("A", bases,
                                    <<Assign(<<Name("c")>>, Constant), nested, s>>, <<>>)
    /\ visitor = NewClassVisitor
    /\ phase = <<>>
    /\ raised = "none"
    /\ fs = << >>
    /\ package = NewTree
    /\ last = NoCall
    /\ output = <<>>

VisitClassDef ==
    /\ phase = <<>>
    /\ visitor' = ClassVisitor_visit(visitor, stmt)
    /\ raised' = visitor'.raised
    /\ phase' = <<"visit_ClassDef">>
    /\ UNCHANGED stmt
    /\ UNCHANGED treevars

NextClass == VisitClassDef

SpecClass == InitClass /\ [][NextClass]_vars

-----------------------------------------------------------------------------
(* astvisitors.ConstructorVisitor.visit on the constructor of class A of    *)
(* top.root.m                                                               *)

\* the type annotations of the constructors: in the tree (P, K, p.P), out of
\* it (Z of top.rootx.z, int), and bound to nothing (Unknown, nomod.Unknown)
Annotations ==
    {Name("P"), Name("K"), Attribute(Name("p"), "P"), Name("Z"), Name("int"),
     Name("Unknown"), Attribute(Name("nomod"), "Unknown")}

\* statements of the constructor body
RelationStmts ==
    {AnnAssign(SelfAttr("x"), t, Name("v")) : t \in Annotations}
    \cup {Assign(<<SelfAttr("y")>>, Name("v")),
          Assign(<<SelfAttr("y")>>, BinOp(Name("v"), Constant)),
          Assign(<<Tuple(<<SelfAttr("x"), SelfAttr("y")>>)>>, Name("v")),
          AnnAssign(Name("w"), Name("P"), Name("v")),
          Assign(<<SelfAttr("z")>>, Name("w")),
          AnnAssign(Name("v"), Name("K"), Constant),
          Assign(<<Name("v")>>, Constant)}

\* 'def __init__(self, v[: <annotation>]): <1..MaxBody statements>'
InitRelations ==
    /\ \E n \in 1..MaxBody :
         \E body \in [1..n -> RelationStmts],
            annotation \in {<<>>} \cup {<<t>> : t \in {Name("P"), Name("Z"), Name("Unknown")}} :
                stmt = FunctionDef("__init__",
                                   <<arg("self", <<>>), arg("v", annotation)>>, body, <<>>)
    /\ visitor = NewRelationsVisitor
    /\ phase = <<>>
    /\ raised = "none"
    /\ fs = << >>
    /\ package = NewTree
    /\ last = NoCall
    /\ output = <<>>

VisitConstructor ==
    /\ phase = <<>>
    /\ visitor' = RelationsVisitor_visit(visitor, stmt)
    /\ raised' = visitor'.raised
    /\ phase' = <<"visit_constructor">>
    /\ UNCHANGED stmt
    /\ UNCHANGED treevars

NextRelations == VisitConstructor

SpecRelations == InitRelations /\ [][NextRelations]_vars

-----------------------------------------------------------------------------
(* Walks and direct _add_module / _add_subpackage calls over trees whose  *)
(* initializer modules vary                                               *)

\* most direct calls of _add_module / _add_subpackage on one package object
MaxCalls == 2

\* sources of a/__init__.py
InitSources ==
    {<<>>,
     <<ClassDef("I", <<>>)>>,
     <<ClassDef("I", <<>>), ImportFrom(<<"b">>, "B", NoAlias, 1),
       ClassDef("J", << <<"B">> >>)>>}

\* sources of the root's __init__.py
RootInitSources == {<<>>, <<ClassDef("R", <<>>)>>}

\* sources of x/y.py: empty, with classes, and one that does not execute
WalkYSources ==
    {<<>>, <<ClassDef("D", <<>>)>>, YSource,
     <<ClassDef("D", <<>>), ClassDef("E", << <<"Nope">> >>)>>}

\* a file that may be absent: <<>>, or <<its source>>
Optional(S) == {<<>>} \cup {<<s>> : s \in S}

WithFile(src, f, opt) ==
    IF opt = <<>> THEN src ELSE (f :> opt[1]) @@ src

\* the files of the tree with the two initializer modules r and a
WalkFiles(r, a, y) ==
    WithFile(WithFile((ModT :> TSource) @@ (ModY :> y) @@ (ModB :> BSource),
                      InitA, a),
             RootInit, r)

InitWalk ==
    /\ \E r \in Optional(RootInitSources), a \in Optional(InitSources),
          y \in WalkYSources :
          fs = WalkFiles(r, a, y)
    /\ \E _type \in {REGULAR, NAMESPACE} : package = PythonPackage(fs, _type)
    /\ phase = <<>>
    /\ raised = "none"
    /\ last = NoCall
    /\ output = <<>>
    /\ stmt = NoStmt
    /\ visitor = NewAssignmentVisitor

\* package._add_module(module_fully_qualified_name, skip_empty), called on
\* the root package object as the unit tests do
AddModule ==
    /\ raised = "none"
    /\ \A i \in 1..Len(phase) : phase[i] # "walk"
    /\ Len(phase) < MaxCalls
    /\ \E m \in DOMAIN fs, skip_empty \in BOOLEAN :
         /\ Front(m) \in DOMAIN package.pkgs
         /\ m \notin DOMAIN package.mods
         /\ package' = _add_module(package, fs, m, skip_empty)
         /\ last' = [NoCall EXCEPT !.op = "_add_module", !.module = m]
    /\ raised' = package'.raised
    /\ phase' = Append(phase, "_add_module")
    /\ UNCHANGED <<fs, output>>
    /\ UNCHANGED astvars

\* package._add_subpackage(subpackage_fully_qualified_name)
AddSubpackage ==
    /\ raised = "none"
    /\ \A i \in 1..Len(phase) : phase[i] # "walk"
    /\ Len(phase) < MaxCalls
    /\ \E i \in 1..Len(PackageNames) :
         /\ (RootFqn \o PackageNames[i]) \notin DOMAIN package.pkgs
         /\ package' = _add_subpackage(package, fs, RootFqn \o PackageNames[i])
         /\ last' = [NoCall EXCEPT !.op = "_add_subpackage",
                                   !.arg = RootFqn \o PackageNames[i]]
    /\ raised' = package'.raised
    /\ phase' = Append(phase, "_add_subpackage")
    /\ UNCHANGED <<fs, output>>
    /\ UNCHANGED astvars

NextWalk == Walk \/ AddModule \/ AddSubpackage

SpecWalk == InitWalk /\ [][NextWalk]_vars

-----------------------------------------------------------------------------
(* ClassVisitor().visit(node) on a class that holds one constructor *)

\* most targets of one assignment statement, chained or in a tuple
MaxTargets == 2

\* the receiver identifiers tried as first parameter of __init__
Receivers == {"self", "me"}

\* targets: 'self.x', 'self.y', 'me.x', and the local variable 't'
InitTargets ==
    {Attribute(Name("self"), "x"), Attribute(Name("self"), "y"),
     Attribute(Name("me"), "x"), Name("t")}

\* right-hand sides: 'xx', 'yy', 'u', '1', 'xx + 1', 'f(xx)', 'xx, yy + 1',
\* 'xx, (yy, 1)', 'xx, yy, 1'
InitValues ==
    {Name("xx"), Name("yy"), Name("u"), Constant, BinOp(Name("xx"), Constant),
     Call(Name("f"), <<Name("xx")>>),
     Tuple(<<Name("xx"), BinOp(Name("yy"), Constant)>>),
     Tuple(<<Name("xx"), Tuple(<<Name("yy"), Constant>>)>>),
     Tuple(<<Name("xx"), Name("yy"), Constant>>)}

\* 'def __init__(<receiver>, xx: int, yy: str): <body>' in 'class K'
InitOf(receiver, body) ==
    ClassNode("K", <<>>,
        <<FunctionDef("__init__",
                      <<arg(receiver, <<>>), arg("xx", <<Name("int")>>),
                        arg("yy", <<Name("str")>>)>>,
                      body, <<>>)>>,
        <<>>)

\* one statement 'T1 = .. = Tn = V', '(T1, .., Tn) = V' or 'T: float = V',
\* alone or followed by 'self.y = yy'
InitConstructor ==
    /\ \E receiver \in Receivers, value \in InitValues, n \in 1..MaxTargets :
         \E ts \in [1..n -> InitTargets] :
           \E first \in {Assign(ts, value), Assign(<<Tuple(ts)>>, value),
                         AnnAssign(ts[1], Name("float"), value)} :
             \E body \in {<<first>>,
                          <<first, Assign(<<Attribute(Name("self"), "y")>>, Name("yy"))>>} :
                /\ (first.kind = "AnnAssign" => n = 1)
                /\ (first.elts[1].kind = "Tuple" => n > 1)
                /\ stmt = InitOf(receiver, body)
    /\ visitor = NewClassVisitor
    /\ phase = <<>>
    /\ raised = "none"
    /\ fs = << >>
    /\ package = NewTree
    /\ last = NoCall
    /\ output = <<>>

NextConstructor == VisitClassDef

SpecConstructor == InitConstructor /\ [][NextConstructor]_vars

-----------------------------------------------------------------------------
(* AssignedVariablesCollector(class_self_id, annotation).visit(target) *)

\* targets: 'v', 'self', 'me', 'self.x', 'me.x', 'other.z', 'self.a.b',
\* 'self.a[0]', 'd[0]', and the nested tuple '(w, self.y)'
CollectorTargets ==
    {Name("v"), Name("self"), Name("me"),
     Attribute(Name("self"), "x"), Attribute(Name("me"), "x"),
     Attribute(Name("other"), "z"),
     Attribute(Attribute(Name("self"), "a"), "b"),
     Subscript(Attribute(Name("self"), "a"), Constant),
     Subscript(Name("d"), Constant),
     Tuple(<<Name("w"), Attribute(Name("self"), "y")>>)}

\* one target, or a tuple of 2..MaxElts targets
InitCollector ==
    /\ \E n \in 1..MaxElts : \E ts \in [1..n -> CollectorTargets] :
          stmt = IF n = 1 THEN ts[1] ELSE Tuple(ts)
    /\ \E class_self_id \in Receivers, annotation \in {NoAnnotation, Name("int")} :
          visitor = [class_self_id |-> class_self_id, annotation |-> annotation,
                     variables |-> <<>>, self_attributes |-> <<>>]
    /\ phase = <<>>
    /\ raised = "none"
    /\ fs = << >>
    /\ package = NewTree
    /\ last = NoCall
    /\ output = <<>>

\* assignment_collector.visit(assignment_target)
VisitTarget ==
    /\ phase = <<>>
    /\ visitor' = AssignedVariablesCollector_visit(
                      visitor, visitor.class_self_id, visitor.annotation, stmt)
    /\ phase' = <<"visit_target">>
    /\ UNCHANGED <<stmt, raised>>
    /\ UNCHANGED treevars

NextCollector == VisitTarget

SpecCollector == InitCollector /\ [][NextCollector]_vars

-----------------------------------------------------------------------------
(* Properties *)

\* whether n parent_package links can be followed from x, and where they lead
RECURSIVE HasParents(_, _)
HasParents(x, n) ==
    n = 0 \/ (ParentOf(package, x) # None /\ HasParents(ParentOf(package, x), n - 1))

RECURSIVE NthParent(_, _)
NthParent(x, n) == IF n = 0 THEN x ELSE NthParent(ParentOf(package, x), n - 1)

\* C1: resolve_relative_import on a level-N import (N > 0) of a module that has
\* at least N ancestor packages does not raise and sets fully_qualified_name to
\* '<fqn of the package N parent links above the module>.<module_name>'; from
\* top.root.x.y, 'a.b' resolves to top.root.a.b at level 2 and to
\* top.root.x.a.b at level 1.
C1_RelativeImportResolved ==
    (/\ last.op = "resolve_relative_import"
     /\ last.level > 0
     /\ HasParents(last.module, last.level))
    => /\ raised = "none"
       /\ last.val =
            package.pkgs[NthParent(last.module, last.level)].fully_qualified_name
                \o last.arg
       /\ (last.module = ModY /\ last.arg = <<"a", "b">> /\ last.level = 2)
            => last.val = <<"top", "root", "a", "b">>
       /\ (last.module = ModY /\ last.arg = <<"a", "b">> /\ last.level = 1)
            => last.val = <<"top", "root", "x", "a", "b">>

C1_Witness ==
    /\ last.op = "resolve_relative_import"
    /\ last.module = ModY
    /\ last.arg = <<"a", "b">>
    /\ last.level = 2
    /\ last.before = None
    /\ raised = "none"
    /\ last.val = <<"top", "root", "a", "b">>

\* C2: resolve_relative_import on an import whose level exceeds the number of
\* parent links above the module raises, and the import's fully_qualified_name
\* is what it was before the call (None if it was never resolved).
C2_PastRootRaisesAndKeeps ==
    (/\ last.op = "resolve_relative_import"
     /\ last.level > 0
     /\ ~HasParents(last.module, last.level))
    => /\ raised = "Exception"
       /\ last.val = last.before

C2_Witness ==
    /\ last.op = "resolve_relative_import"
    /\ last.module = ModY
    /\ last.level = 3
    /\ raised = "Exception"
    /\ last.before = None
    /\ last.val = None

\* the import statements of the tree, as <<module, position in its table>>
AllImports ==
    UNION {{<<m, i>> : i \in 1..Len(package.mods[m].import_statements)} :
              m \in DOMAIN package.mods}

ImportAt(mi) == package.mods[mi[1]].import_statements[mi[2]].val

\* an import that resolve_relative_imports can resolve on its own
Resolvable(mi) ==
    ImportAt(mi).level = 0 \/ HasParents(mi[1], ImportAt(mi).level)

\* C3: after PythonPackage.resolve_relative_imports, every import other than
\* the relative ones that walk past the root has its fully_qualified_name set
\* (a failing import does not abort the pass).
C3_FailingImportDoesNotAbort ==
    phase = <<"walk", "resolve_relative_imports">>
    => \A mi \in AllImports :
          Resolvable(mi) => ImportAt(mi).fully_qualified_name # None

AllImportsResolved ==
    \A mi \in AllImports : ImportAt(mi).fully_qualified_name # None

AllClasses == find_all_classes(package, RootFqn)

\* the class statements of y.py; package.mods[ModY].classes[i] was made from
\* the i-th of them
YClassDefs == SelectSeq(fs[ModY], LAMBDA st : st.kind = "ClassDef")

\* C4: after resolve_class_inheritance (package.py) on a walked tree whose
\* imports are resolved, every entry left in a class's base_classes is bound
\* to a class of the tree: none is None, the unresolvable ones are gone.
C4_BasesBoundOrRemoved ==
    (/\ phase = <<"walk", "resolve_relative_imports", "resolve_class_inheritance">>
     /\ AllImportsResolved)
    => /\ raised = "none"
       /\ \A i \in 1..Len(AllClasses) :
            LET bases == ClassAt(package, AllClasses[i]).base_classes
            IN  \A j \in 1..Len(bases) :
                    /\ bases[j].val # NoClass
                    /\ bases[j].val \in SeqRange(AllClasses)

\* y.py is 'from a.b import B' (a library outside the tree), 'class D(B)':
\* D's only base cannot be mapped and D is left without base classes
C4_Witness ==
    /\ phase = <<"walk", "resolve_relative_imports", "resolve_class_inheritance">>
    /\ AllImportsResolved
    /\ fs[ModY] = <<ImportFrom(<<"a", "b">>, "B", NoAlias, 0), ClassDef("D", << <<"B">> >>)>>
    /\ package.mods[ModY].classes[1].name = "D"
    /\ package.mods[ModY].classes[1].base_classes = <<>>

\* C5: py2puml() on a tree in which a class has a base class that cannot be
\* mapped to a class of the tree completes without raising, and its output
\* has no inheritance line for that base (every inheritance line names a
\* class of the tree).
C5_UnmappableBaseIsOmitted ==
    (phase = <<"py2puml">> /\ AllImportsResolved)
    => /\ raised = "none"
       /\ \A k \in 1..Len(output) :
            output[k].kind = "inheritance"
            => \E i \in 1..Len(AllClasses) :
                  ClassAt(package, AllClasses[i]).fully_qualified_name = output[k].base

\* C6: if y.py defines class B and class D(B), then after
\* resolve_class_inheritance D.base_classes['B'] is the class top.root.x.y.B,
\* also when y.py imports another object under the name B.
C6_OwnClassBeforeImport ==
    (/\ phase = <<"walk", "resolve_relative_imports", "resolve_class_inheritance">>
     /\ AllImportsResolved
     /\ ClassDef("B", <<>>) \in SeqRange(fs[ModY]))
    => \A i \in 1..Len(YClassDefs) :
          <<"B">> \in SeqRange(YClassDefs[i].bases)
          => LET bases == package.mods[ModY].classes[i].base_classes
             IN  /\ <<"B">> \in DictKeys(bases)
                 /\ ClassAt(package, DictGet(bases, <<"B">>)).fully_qualified_name
                        = ModY \o <<"B">>

\* the import record of y.py a name leads to
YImport(n) == DictGet(package.mods[ModY].import_statements, n)

IsResolvedAlias(n) ==
    /\ n \in DictKeys(package.mods[ModY].import_statements)
    /\ YImport(n).alias # NoAlias
    /\ YImport(n).fully_qualified_name # None

\* y.py with the aliased import of n written without its alias
Unaliased(n) ==
    [package.mods[ModY] EXCEPT !.import_statements =
        << [key |-> YImport(n).name, val |-> [YImport(n) EXCEPT !.alias = NoAlias]] >>]

\* C7: resolve_class_pqn on a dotted name whose first segment is the alias of
\* a resolved import returns '<import fqn>.<name with the alias replaced by the
\* original name>', the result the un-aliased import gives for the name written
\* with the original name; resolve_class_name on such an alias returns
\* '<import fqn>.<original name>'.
C7_AliasResolvesToOriginalName ==
    /\ (last.op = "resolve_class_pqn" /\ IsResolvedAlias(last.arg[1]))
       => /\ raised = "none"
          /\ last.val = YImport(last.arg[1]).fully_qualified_name
                          \o <<YImport(last.arg[1]).name>> \o Tail(last.arg)
          /\ last.val = resolve_class_pqn(
                            Unaliased(last.arg[1]),
                            <<YImport(last.arg[1]).name>> \o Tail(last.arg)).val
    /\ (last.op = "resolve_class_name" /\ IsResolvedAlias(last.arg[1]))
       => /\ raised = "none"
          /\ last.val = YImport(last.arg[1]).fully_qualified_name
                          \o <<YImport(last.arg[1]).name>>

\* y.py has 'from ..a import b as K' and K.B is looked up
C7_Witness ==
    /\ last.op = "resolve_class_pqn"
    /\ last.arg = <<"K", "B">>
    /\ IsResolvedAlias("K")
    /\ YImport("K").name = "b"
    /\ raised = "none"
    /\ last.val = <<"top", "root", "a", "b", "B">>

\* a base-class name of y.py whose lookup goes through the import table
ThroughImport(pqn) ==
    /\ pqn[1] \in DictKeys(package.mods[ModY].import_statements)
    /\ Len(pqn) = 1 => pqn[1] \notin ClassNames(package.mods[ModY])

\* C8: when resolve_class_inheritance runs before resolve_relative_imports, a
\* base-class lookup that goes through an import whose fully_qualified_name
\* is still None fails with an error, for dotted and undotted names alike.
C8_UnresolvedImportIsAnError ==
    (/\ phase = <<"walk", "resolve_class_inheritance">>
     /\ \E i \in 1..Len(YClassDefs) : \E j \in 1..Len(YClassDefs[i].bases) :
            ThroughImport(YClassDefs[i].bases[j]))
    => raised # "none"

IsSelfAttribute(e) ==
    e.kind = "Attribute" /\ e.elts[1].kind = "Name" /\ e.elts[1].id = "self"

\* the names occurring in an expression, in source order; the object of an
\* attribute access is not counted
RECURSIVE NamesIn(_)
RECURSIVE NamesInAll(_)
NamesIn(e) ==
    IF e.kind = "Name" THEN <<e.id>>
    ELSE IF e.kind = "Attribute" THEN <<>>
    ELSE NamesInAll(e.elts)
NamesInAll(es) == IF es = <<>> THEN <<>> ELSE NamesIn(Head(es)) \o NamesInAll(Tail(es))

\* one record per target that is an attribute of self, in target order, with
\* the names of the value at the same position
RECURSIVE PositionalAssignments(_, _, _)
PositionalAssignments(targets, values, i) ==
    IF i > Len(targets) THEN <<>>
    ELSE (IF IsSelfAttribute(targets[i])
          THEN << [AttributeAssignment(targets[i].id)
                      EXCEPT !.variable_names = NamesIn(values[i])] >>
          ELSE <<>>)
         \o PositionalAssignments(targets, values, i + 1)

\* '<t1>, ..., <tn> = <v1>, ..., <vn>'
IsTupleUnpacking(node) ==
    /\ node.kind = "Assign"
    /\ node.elts[1].kind = "Tuple"
    /\ node.elts[2].kind = "Tuple"
    /\ Len(node.elts[1].elts) = Len(node.elts[2].elts)

\* C9: on a tuple-unpacking assignment AssignmentVisitor yields exactly one
\* AttributeAssignment per target that is an attribute of self, in target
\* order, whose variable_names are the names of the right-hand-side element at
\* the same position; the other positions yield nothing and shift nothing.
C9_TupleUnpackingIsPositional ==
    (phase = <<"visit_Assign">> /\ IsTupleUnpacking(stmt))
    => /\ raised = "none"
       /\ visitor.attribute_assignments =
            PositionalAssignments(stmt.elts[1].elts, stmt.elts[2].elts, 1)

\* the statements of the class body handed to the ClassVisitor
ClassBody == stmt.elts[2].elts

\* C10: in the attribute list ClassVisitor builds, every instance attribute
\* derived from __init__ comes after every class-level attribute, wherever
\* __init__ stands in the class body.  (Stated for a class that is no
\* dataclass and has no property: there the instance attributes are the
\* __init__-derived ones and the class attributes the class-level ones.)
C10_InitAttributesAfterClassLevel ==
    (/\ phase = <<"visit_ClassDef">>
     /\ raised = "none"
     /\ ~visitor.is_dataclass
     /\ \A k \in 1..Len(ClassBody) : ClassBody[k].id # "p")
    => \A i \in 1..Len(visitor.attributes) : \A j \in 1..Len(visitor.attributes) :
          (/\ visitor.attributes[i].kind = "InstanceAttribute"
           /\ visitor.attributes[j].kind = "ClassAttribute")
          => j < i

\* the __init__ definitions of the class body
ConstructorsIn(body) ==
    {k \in 1..Len(body) : body[k].kind = "FunctionDef" /\ body[k].id = "__init__"}

\* C11: the attribute list built for a class holds the name of an attribute
\* assigned in __init__ once: an assignment in __init__ to a name already
\* seen (earlier in __init__ or at class level) adds no second entry.
\* (Stated for a class body with one __init__, no property, and no
\* class-level name assigned twice at class level.)
C11_AttributeNamesUnique ==
    (/\ phase = <<"visit_ClassDef">>
     /\ raised = "none"
     /\ ~visitor.is_dataclass
     /\ Cardinality(ConstructorsIn(ClassBody)) = 1
     /\ \A k \in 1..Len(ClassBody) : ClassBody[k].id # "p")
    => \A i \in 1..Len(visitor.attributes) : \A j \in 1..Len(visitor.attributes) :
          (/\ i # j
           /\ visitor.attributes[i].kind = "InstanceAttribute")
          => visitor.attributes[i].name # visitor.attributes[j].name

\* a decorator that is the bare name 'dataclass', called or not
HasDataclassDecorator(node) ==
    \E k \in 1..Len(node.elts[3].elts) :
        LET d == node.elts[3].elts[k]
        IN  (IF d.kind = "Call" THEN d.elts[1] ELSE d) = Name("dataclass")

\* the attributes the assignments of a class body stand for, in source
\* order, all of one kind
RECURSIVE FieldsOf(_, _)
FieldsOf(body, kind) ==
    IF body = <<>> THEN <<>>
    ELSE (IF Head(body).kind = "Assign"
          THEN [t \in 1..(Len(Head(body).elts) - 1) |->
                   [kind |-> kind, name |-> Head(body).elts[t].id, type_expr |-> NoType]]
          ELSE IF Head(body).kind = "AnnAssign"
          THEN << [kind |-> kind, name |-> Head(body).elts[1].id,
                   type_expr |-> Head(body).elts[2].id] >>
          ELSE <<>>)
         \o FieldsOf(Tail(body), kind)

\* a class body whose attributes all come from class-body assignments
OnlyFields(body) ==
    \A k \in 1..Len(body) :
        body[k].kind = "FunctionDef"
        => body[k].id # "__init__" /\ body[k].elts[3].elts = <<>>

\* C12: under a decorator that reads as 'dataclass' every class-body
\* assignment, annotated or not, is recorded as an InstanceAttribute (typed by
\* its annotation when it has one) in source order and no ClassAttribute is
\* produced; without such a decorator the same assignments are recorded as
\* ClassAttribute.
C12_DataclassFieldsAreInstanceAttributes ==
    (phase = <<"visit_ClassDef">> /\ OnlyFields(ClassBody))
    => /\ raised = "none"
       /\ visitor.attributes =
            FieldsOf(ClassBody,
                     IF HasDataclassDecorator(stmt)
                     THEN "InstanceAttribute" ELSE "ClassAttribute")

\* '@dataclass class Address: street: str; zipcode: str; city: str'
C12_Witness ==
    /\ phase = <<"visit_ClassDef">>
    /\ stmt = ClassNode("Address", <<>>,
                        <<AnnDecl(Name("street"), Name("str")),
                          AnnDecl(Name("zipcode"), Name("str")),
                          AnnDecl(Name("city"), Name("str"))>>,
                        <<Name("dataclass")>>)
    /\ visitor.attributes =
         <<InstanceAttribute("street", "str"), InstanceAttribute("zipcode", "str"),
           InstanceAttribute("city", "str")>>

\* a fully qualified name that is the root package's or lies below it
InsideRoot(fqn) ==
    fqn = RootFqnText \/ startswith(fqn, RootFqnText \o <<".">>)

\* C13: whatever the constructor assigns, astvisitors.ConstructorVisitor
\* holds COMPOSITION relations only to types whose fully qualified name is the
\* documented root package's or lies below it, at most one per target.
C13_RelationsOnlyInsideRoot ==
    phase = <<"visit_constructor">>
    => LET relations == visitor.uml_relations_by_target_fqn
       IN  /\ \A i \in 1..Len(relations) :
                /\ InsideRoot(relations[i].key)
                /\ relations[i].val =
                     UmlRelation(visitor.class_fqn, relations[i].key, "COMPOSITION")
           /\ \A i \in 1..Len(relations) : \A j \in 1..Len(relations) :
                relations[i].key = relations[j].key => i = j

\* the statements of the constructor handed to the visitor
ConstructorBody == stmt.elts[2].elts

Unresolvable(annotation) ==
    annotation \in {Name("Unknown"), Attribute(Name("nomod"), "Unknown")}

\* C15: a simple type name bound neither in the module nor in the built-ins
\* resolves to (None, None) without an error, and the constructor analysis
\* does not raise on it: the attribute annotated with it is recorded, with
\* unknown type.
C15_UnresolvableTypeIsNotFatal ==
    /\ \A path \in {<<"Unknown">>, <<"nomod", "Unknown">>} :
          resolve_full_namespace_type(ModuleM, path)
            = [raised |-> "none", val |-> EMPTY_NAMESPACED_TYPE]
    /\ phase = <<"visit_constructor">>
       => /\ raised = "none"
          /\ \A k \in 1..Len(ConstructorBody) :
                (/\ ConstructorBody[k].kind = "AnnAssign"
                 /\ IsSelfAttribute(ConstructorBody[k].elts[1])
                 /\ Unresolvable(ConstructorBody[k].elts[2]))
                => [name |-> ConstructorBody[k].elts[1].id, type |-> None]
                      \in SeqRange(visitor.uml_attributes)

\* the classes of the tree an attribute of the class at ref is typed as
CompositionTargets(ref, attribute) ==
    LET r == resolve_class_name(package.mods[ref.mod], attribute.type_expr)
    IN  {i \in 1..Len(AllClasses) :
            /\ attribute.kind = "InstanceAttribute"
            /\ attribute.type_expr # NoType
            /\ r.raised = "none"
            /\ ClassAt(package, AllClasses[i]).fully_qualified_name = r.val}

\* C14: the output of py2puml() has a composition relation for every
\* instance attribute whose type is another class of the documented tree,
\* from the owning class to that class.
C14_CompositionForInTreeAttributes ==
    (phase = <<"py2puml">> /\ raised = "none")
    => \A i \in 1..Len(AllClasses) :
          LET owner == ClassAt(package, AllClasses[i])
          IN  \A a \in 1..Len(owner.attributes) :
                \A t \in CompositionTargets(AllClasses[i], owner.attributes[a]) :
                    \E k \in 1..Len(output) :
                        /\ output[k].kind = "composition"
                        /\ output[k].fqn = owner.fully_qualified_name
                        /\ output[k].base =
                              ClassAt(package, AllClasses[t]).fully_qualified_name


\* the names of the class statements of a source, in order
ClassStatementNames(src) ==
    LET cdefs == SelectSeq(src, LAMBDA st : st.kind = "ClassDef")
    IN  [i \in 1..Len(cdefs) |-> cdefs[i].name]

Elements(seq) == {seq[i] : i \in 1..Len(seq)}

\* C16: a class defined in a package's __init__ module is named
\* '<package fqn>.<class name>', without an '__init__' segment; after
\* _add_module of an initializer module that defines classes (called directly
\* or by walk) the module is attached to the package's modules, holds one
\* class per class statement, and each of them is also in the package's own
\* classes list.
C16_InitClassesBelongToPackage ==
    /\ \A m \in DOMAIN package.mods :
         Last(m) = "__init__" =>
           LET p == Front(m)
               classes == package.mods[m].classes
           IN  /\ m \in Elements(package.pkgs[p].modules)
               /\ [i \in 1..Len(classes) |-> classes[i].name] = ClassStatementNames(fs[m])
               /\ \A i \in 1..Len(classes) :
                    /\ classes[i].fully_qualified_name = p \o <<classes[i].name>>
                    /\ "__init__" \notin Elements(classes[i].fully_qualified_name)
                    /\ [mod |-> m, idx |-> i] \in Elements(package.pkgs[p].classes)
    /\ (/\ last.op = "_add_module"
        /\ Last(last.module) = "__init__"
        /\ raised = "none"
        /\ ClassStatementNames(fs[last.module]) # <<>>)
       => last.module \in DOMAIN package.mods
    /\ (phase = <<"walk">> /\ raised = "none")
       => \A p \in DOMAIN package.pkgs :
            (/\ package.pkgs[p].type = REGULAR
             /\ ClassStatementNames(fs[p \o <<"__init__">>]) # <<>>)
            => (p \o <<"__init__">>) \in DOMAIN package.mods

\* _add_subpackage of a, then _add_module of a/__init__.py with its two classes
C16_Witness ==
    /\ last.op = "_add_module"
    /\ last.module = InitA
    /\ InitA \in DOMAIN package.mods
    /\ Len(package.pkgs[PkgA].classes) = 2
    /\ package.mods[InitA].classes[2].fully_qualified_name = PkgA \o <<"J">>


\* C17: after walk, the __init__ module of a regular package is among the
\* package's modules exactly when it defines a class; every other module
\* found in a package is among its modules, with or without classes; and a
\* module is only ever attached to the package named by its fully qualified
\* name without the last segment.
C17_EmptyInitSkippedOthersKept ==
    (phase = <<"walk">> /\ raised = "none") =>
       \A p \in DOMAIN package.pkgs :
          LET init == p \o <<"__init__">>
              modules == Elements(package.pkgs[p].modules)
          IN  /\ package.pkgs[p].type = REGULAR =>
                   (init \in modules <=> ClassStatementNames(fs[init]) # <<>>)
              /\ package.pkgs[p].type = NAMESPACE => init \notin modules
              /\ \A i \in 1..Len(ModuleFiles(p)) :
                   (p \o <<ModuleFiles(p)[i]>>) \in modules
              /\ \A m \in modules :
                   /\ Front(m) = p
                   /\ m \in DOMAIN package.mods
                   /\ package.mods[m].parent_package = p

\* a walk over a tree with a root initializer that defines a class, an empty
\* a/__init__.py and an empty x/y.py
C17_Witness ==
    /\ phase = <<"walk">>
    /\ raised = "none"
    /\ RootInit \in Elements(package.pkgs[RootFqn].modules)
    /\ InitA \in DOMAIN fs
    /\ fs[InitA] = <<>>
    /\ InitA \notin DOMAIN package.mods
    /\ fs[ModY] = <<>>
    /\ ModY \in Elements(package.pkgs[PkgX].modules)


\* C18: the temporary __init__.py of walk never persists.  Whether walk
\* returns or fails, it leaves no file that was not there before it started
\* (in particular no __init__.py in the root directory or in a subpackage),
\* it changes the content of no file it leaves, and with a REGULAR root it
\* leaves the files as they were.
C18_TemporaryInitNeverPersists ==
    [][(phase = <<>> /\ phase' = <<"walk">>) =>
          /\ DOMAIN fs' \subseteq DOMAIN fs
          /\ \A f \in DOMAIN fs' : fs'[f] = fs[f]
          /\ package.pkgs[RootFqn].type = REGULAR => fs' = fs
          /\ (RootInit \in DOMAIN fs') => (RootInit \in DOMAIN fs)]_vars

\* a walk of a NAMESPACE root that failed on a module that does not execute
C18_Witness ==
    /\ phase = <<"walk">>
    /\ raised = "NameError"
    /\ package.pkgs[RootFqn].type = NAMESPACE
    /\ RootInit \notin DOMAIN fs
    /\ PkgX \in DOMAIN package.pkgs


\* the keys of the registry classes_by_fqn that resolve_class_inheritance
\* builds from find_all_classes
RegistryKeys(tree) ==
    LET all_classes == find_all_classes(tree, RootFqn)
    IN  {ClassAt(tree, all_classes[i]).fully_qualified_name :
            i \in 1..Len(all_classes)}

\* C19: within one walked package tree no two classes returned by
\* find_all_classes have the same fully_qualified_name, so the registry
\* classes_by_fqn has as many entries as the tree has classes.
C19_FullyQualifiedNamesUnique ==
    (phase # <<>> /\ raised = "none") =>
       LET all_classes == find_all_classes(package, RootFqn)
       IN  /\ \A i, j \in 1..Len(all_classes) :
                i # j => ClassAt(package, all_classes[i]).fully_qualified_name
                           # ClassAt(package, all_classes[j]).fully_qualified_name
           /\ Cardinality(RegistryKeys(package)) = Len(all_classes)


\* the (class, resolved base class) pairs of the classes, in discovery order
RECURSIVE InheritancePairs(_, _)
InheritancePairs(tree, classes) ==
    IF classes = <<>> THEN <<>>
    ELSE LET _class == ClassAt(tree, Head(classes))
             resolved == SelectSeq(_class.base_classes, LAMBDA kv : kv.val # NoClass)
         IN  [j \in 1..Len(resolved) |->
                [derived |-> _class.fully_qualified_name,
                 base |-> ClassAt(tree, resolved[j].val).fully_qualified_name]]
             \o InheritancePairs(tree, Tail(classes))

\* C20: what py2puml() returns is, in this order: the header with the root
\* package's fully qualified name, the namespace block, one class block per
\* class in find_all_classes order, one line '<base fqn> <|-- <derived fqn>'
\* per (class, resolved base class) pair in discovery order, and the footer,
\* with nothing after it.
C20_GenerateOrder ==
    (phase = <<"py2puml">> /\ raised = "none") =>
       LET classes == find_all_classes(package, RootFqn)
           pairs == InheritancePairs(package, classes)
           n == Len(classes)
       IN  /\ Len(output) = 2 + n + Len(pairs) + 1
           /\ output[1].kind = "header"
           /\ output[1].text = <<"@startuml ", RootFqn, "\n">>
           /\ output[2].kind = "namespace"
           /\ \A i \in 1..n :
                /\ output[2 + i].kind = "class"
                /\ output[2 + i].text =
                      <<"class ", ClassAt(package, classes[i]).fully_qualified_name, " {">>
           /\ \A i \in 1..Len(pairs) :
                /\ output[2 + n + i].kind = "inheritance"
                /\ output[2 + n + i].text =
                      <<pairs[i].base, " <|-- ", pairs[i].derived, "\n">>
           /\ output[Len(output)].kind = "footer"
           /\ output[Len(output)].text = <<"footer Generated by //py2puml//\n@enduml\n">>

\* a diagram with two inheritance lines
C20_Witness ==
    /\ phase = <<"py2puml">>
    /\ raised = "none"
    /\ Cardinality({k \in 1..Len(output) : output[k].kind = "inheritance"}) = 2


\* the constructor of the class under analysis, its receiver identifier (the
\* first parameter) and the statements of its body
TheConstructor == stmt.elts[2].elts[1]
TheReceiver == TheConstructor.elts[1].elts[1].id
TheBody == TheConstructor.elts[2].elts

\* the names of the instance attributes the ClassVisitor recorded
InstanceAttributeNames ==
    {visitor.attributes[i].name :
        i \in {j \in 1..Len(visitor.attributes) :
                  visitor.attributes[j].kind = "InstanceAttribute"}}

\* statement s is '<object>.<attr> = <value>' with a single target
WritesAttribute(s, object, attr) ==
    /\ s.kind = "Assign"
    /\ Len(s.elts) = 2
    /\ s.elts[1] = Attribute(Name(object), attr)

\* C21: instance attributes are recognised through the constructor's own first
\* parameter, whatever its name: '<receiver>.x = v' gives the class the
\* instance attribute x, and with a receiver other than 'self' an assignment
\* to 'self.y' gives no attribute.
C21_ReceiverIsFirstParameter ==
    (phase = <<"visit_ClassDef">> /\ raised = "none") =>
       \A i \in 1..Len(TheBody) :
          /\ WritesAttribute(TheBody[i], TheReceiver, "x")
                => "x" \in InstanceAttributeNames
          /\ (TheReceiver # "self" /\ WritesAttribute(TheBody[i], "self", "y"))
                => "y" \notin InstanceAttributeNames


\* the targets of a (possibly nested) tuple target, left to right
RECURSIVE FlatTargets(_)
RECURSIVE FlatTargetsOfAll(_)
FlatTargets(node) ==
    IF node.kind = "Tuple" THEN FlatTargetsOfAll(node.elts) ELSE <<node>>
FlatTargetsOfAll(nodes) ==
    IF nodes = <<>> THEN <<>>
    ELSE FlatTargets(Head(nodes)) \o FlatTargetsOfAll(Tail(nodes))

\* C22: AssignedVariablesCollector puts a target in self_attributes exactly
\* when it is an attribute access whose object is directly the receiver
\* identifier, in variables exactly when it is a bare name other than the
\* receiver identifier, and in neither list otherwise (subscript, attribute
\* of an attribute, attribute of another object); the elements of a tuple
\* target are classified independently, each with the collector's annotation.
C22_TargetsClassified ==
    phase = <<"visit_target">> =>
       LET targets == FlatTargets(stmt)
           attrs == SelectSeq(targets,
                       LAMBDA t : /\ t.kind = "Attribute"
                                  /\ t.elts[1] = Name(visitor.class_self_id))
           names == SelectSeq(targets,
                       LAMBDA t : t.kind = "Name" /\ t.id # visitor.class_self_id)
       IN  /\ visitor.self_attributes =
                [i \in 1..Len(attrs) |-> Variable(attrs[i].id, visitor.annotation)]
           /\ visitor.variables =
                [i \in 1..Len(names) |-> Variable(names[i].id, visitor.annotation)]

\* a tuple target holding a subscript, an attribute of an attribute, an
\* attribute of the receiver and a bare name
C22_Witness ==
    /\ phase = <<"visit_target">>
    /\ stmt.kind = "Tuple"
    /\ \E i \in 1..Len(stmt.elts) : stmt.elts[i].kind = "Subscript"
    /\ \E i \in 1..Len(stmt.elts) :
          stmt.elts[i] = Attribute(Attribute(Name("self"), "a"), "b")
    /\ Len(visitor.self_attributes) = 1
    /\ visitor.variables = <<>>


\* C23: for a chained assignment 'T1 = T2 = .. = expr' in a constructor body
\* every target is classified: each target that is an attribute of the
\* receiver 'self' yields an instance attribute, not only the first one.
C23_ChainedTargetsAllClassified ==
    (phase = <<"visit_ClassDef">> /\ raised = "none") =>
       \A i \in 1..Len(TheBody) :
          TheBody[i].kind = "Assign" =>
             \A j \in 1..(Len(TheBody[i].elts) - 1) :
                LET target == TheBody[i].elts[j]
                IN  (target.kind = "Attribute" /\ target.elts[1] = Name("self"))
                       => target.id \in InstanceAttributeNames


\* the annotation of the constructor parameter `id`, NoType for another name
ParameterType(id) ==
    IF id = "xx" THEN "int" ELSE IF id = "yy" THEN "str" ELSE NoType

FirstParameterType(names) ==
    IF "xx" \in names THEN "int" ELSE IF "yy" \in names THEN "str" ELSE NoType

Parameters == {"xx", "yy"}

\* C25: for an unannotated assignment to an attribute of self in __init__,
\* when exactly one constructor parameter name occurs in the right-hand-side
\* expression that positionally corresponds to the attribute, the attribute
\* gets that parameter's annotation as type, also when the parameter stands
\* inside a larger expression.
C25_TypeFromParameterAtSamePosition ==
    (/\ phase = <<"visit_ClassDef">>
     /\ raised = "none"
     /\ Len(TheBody) = 1
     /\ TheBody[1].kind = "Assign"
     /\ Len(TheBody[1].elts) = 2) =>
       LET target == TheBody[1].elts[1]
           value == TheBody[1].elts[2]
           targets == IF target.kind = "Tuple" THEN target.elts ELSE <<target>>
           values == IF target.kind = "Tuple" THEN value.elts ELSE <<value>>
       IN  (/\ target.kind = "Tuple" =>
                  (value.kind = "Tuple" /\ Len(value.elts) = Len(target.elts))
            /\ \A i, j \in 1..Len(targets) : i # j => targets[i] # targets[j])
           => \A i \in 1..Len(targets) :
                 LET read == Elements(NamesIn(values[i])) \cap Parameters
                 IN  (IsSelfAttribute(targets[i]) /\ Cardinality(read) = 1)
                        => \E k \in 1..Len(visitor.attributes) :
                              visitor.attributes[k] =
                                 InstanceAttribute(targets[i].id,
                                                   FirstParameterType(read))

\* the variables bound by the targets of a statement of the constructor body,
\* in the order of the targets
BoundBy(s) ==
    IF s.kind = "AnnAssign"
    THEN IF s.elts[1].kind = "Name" THEN <<Variable(s.elts[1].id, s.elts[2])>> ELSE <<>>
    ELSE IF s.kind = "Assign"
    THEN LET targets == FlatTargetsOfAll(SubSeq(s.elts, 1, Len(s.elts) - 1))
             names == SelectSeq(targets, LAMBDA t : t.kind = "Name")
         IN  [i \in 1..Len(names) |-> Variable(names[i].id, NoAnnotation)]
    ELSE <<>>

\* the bindings of the signature followed by those of the first n statements
RECURSIVE BindingsBefore(_, _)
BindingsBefore(def, n) ==
    IF n = 0
    THEN [i \in 1..Len(def.elts[1].elts) |->
            Variable(def.elts[1].elts[i].id,
                     IF def.elts[1].elts[i].elts = <<>> THEN NoAnnotation
                     ELSE def.elts[1].elts[i].elts[1])]
    ELSE BindingsBefore(def, n - 1) \o BoundBy(def.elts[2].elts[n])

\* the latest of the bindings 1..j that binds the name, None without one
RECURSIVE LatestBinding(_, _, _)
LatestBinding(bindings, name, j) ==
    IF j = 0 THEN None
    ELSE IF bindings[j].id = name THEN <<bindings[j]>>
    ELSE LatestBinding(bindings, name, j - 1)

\* 'self.<attribute> = <name>'
IsSelfAttributeFromName(s) ==
    /\ s.kind = "Assign"
    /\ Len(s.elts) = 2
    /\ IsSelfAttribute(s.elts[1])
    /\ s.elts[2].kind = "Name"

\* the latest binding of the name assigned by the last statement of the body
LatestBindingOfLast ==
    LET body == stmt.elts[2].elts
        bindings == BindingsBefore(stmt, Len(body) - 1)
    IN  LatestBinding(bindings, Last(body).elts[2].id, Len(bindings))

\* C26: when the analysis of a constructor completes, variables_namespace
\* holds the parameters of the signature followed by every variable bound by
\* the assignments of the body, in order; and when the body ends with
\* 'self.x = v' and v is bound before it, the attribute recorded last is x
\* with the type of the latest binding of v that precedes the statement
C26_LatestBindingShadows ==
    (phase = <<"visit_constructor">> /\ raised = "none") =>
        /\ visitor.variables_namespace
                = BindingsBefore(stmt, Len(stmt.elts[2].elts))
        /\ (IsSelfAttributeFromName(Last(stmt.elts[2].elts))
             /\ LatestBindingOfLast # None) =>
                /\ visitor.uml_attributes # <<>>
                /\ Last(visitor.uml_attributes)
                     = [name |-> Last(stmt.elts[2].elts).elts[1].id,
                        type |-> derive_type_annotation_details(
                                    LatestBindingOfLast[1].type_expr).short_type]

\* 'def __init__(self, v: Z): v: K = 0; self.y = v' was analysed: y has the
\* type of the rebinding (K names the class P), not the type Z of the parameter
C26_Witness ==
    /\ phase = <<"visit_constructor">>
    /\ raised = "none"
    /\ stmt.elts[1].elts[2].elts = <<Name("Z")>>
    /\ stmt.elts[2].elts
         = <<AnnAssign(Name("v"), Name("K"), Constant),
             Assign(<<SelfAttr("y")>>, Name("v"))>>
    /\ Last(visitor.uml_attributes).name = "y"
    /\ Last(visitor.uml_attributes).type
         = derive_type_annotation_details(Name("K")).short_type
    /\ Last(visitor.uml_attributes).type
         # derive_type_annotation_details(Name("Z")).short_type

\* the packages a package holds in its subpackages map
SubpackagesOf(q) ==
    {package.pkgs[q].subpackages[i].val : i \in 1..Len(package.pkgs[q].subpackages)}

\* C27: the root has depth 0, and every other registered package is
\* registered under its own fully qualified name, has as parent the package
\* registered under that name without its last segment, is the entry of its
\* name in the parent's subpackages, and lies one level below its parent; no
\* package is the subpackage of two packages
C27_PackageTreeInvariant ==
    /\ RootFqn \in DOMAIN package.pkgs
    /\ package.pkgs[RootFqn].depth = 0
    /\ \A p \in DOMAIN package.pkgs \ {RootFqn} :
         /\ package.pkgs[p].fully_qualified_name = p
         /\ Front(p) \in DOMAIN package.pkgs
         /\ package.pkgs[p].parent_package = Front(p)
         /\ Last(p) \in DictKeys(package.pkgs[Front(p)].subpackages)
         /\ DictGet(package.pkgs[Front(p)].subpackages, Last(p)) = p
         /\ package.pkgs[p].depth = package.pkgs[Front(p)].depth + 1
    /\ \A q1, q2 \in DOMAIN package.pkgs :
         q1 # q2 => SubpackagesOf(q1) \cap SubpackagesOf(q2) = {}

\* C28: on an assignment whose target is a tuple, AssignmentVisitor ends
\* without an IndexError, whatever the shape of the right-hand side: every
\* name of the value is attached to an existing AttributeAssignment or skipped
C28_NoIndexOutOfRange ==
    (/\ phase = <<"visit_Assign">>
     /\ stmt.kind = "Assign"
     /\ stmt.elts[1].kind = "Tuple")
    => raised # "IndexError"

\* the class statement without the classes nested in its body
WithoutNestedClasses(node) ==
    [node EXCEPT !.elts[2].elts = SelectSeq(@, LAMBDA s : s.kind # "ClassDef")]

\* C29: what ClassVisitor holds after visiting a class statement comes from
\* that statement only: class_name is its name, parent_classes_pqn are its own
\* base expressions, is_dataclass tells whether it carries the dataclass
\* decorator itself, and attributes and methods are those of the statement
\* with the nested classes left out
C29_NestedClassContributesNothing ==
    (phase = <<"visit_ClassDef">> /\ raised = "none") =>
        /\ visitor.class_name = stmt.id
        /\ visitor.parent_classes_pqn
             = [i \in 1..Len(stmt.elts[1].elts) |-> elements(stmt.elts[1].elts[i])]
        /\ visitor.is_dataclass
             = (\E i \in 1..Len(stmt.elts[3].elts) :
                    elements(stmt.elts[3].elts[i]) = <<"dataclass">>)
        /\ visitor.attributes
             = ClassVisitor_visit(NewClassVisitor, WithoutNestedClasses(stmt)).attributes
        /\ visitor.methods
             = ClassVisitor_visit(NewClassVisitor, WithoutNestedClasses(stmt)).methods

\* package' differs from package in the values of base_classes at most, and
\* no base_classes map has a key it did not have
OnlyBasesBound ==
    /\ package'.pkgs = package.pkgs
    /\ DOMAIN package'.mods = DOMAIN package.mods
    /\ \A m \in DOMAIN package.mods :
         /\ [package'.mods[m] EXCEPT !.classes = package.mods[m].classes]
              = package.mods[m]
         /\ Len(package'.mods[m].classes) = Len(package.mods[m].classes)
         /\ \A i \in 1..Len(package.mods[m].classes) :
              /\ [package'.mods[m].classes[i] EXCEPT
                     !.base_classes = package.mods[m].classes[i].base_classes]
                   = package.mods[m].classes[i]
              /\ DictKeys(package'.mods[m].classes[i].base_classes)
                   \subseteq DictKeys(package.mods[m].classes[i].base_classes)

====
